---- MODULE Spec2Model ----
(***************************************************************************)
(* The Shell Link (.lnk) decoder of reujab/lnk: Open (src/open.go) with    *)
(* the LNK record, HotKey.String and windowsNanoToTime                     *)
(* (src/unnamed/part_001).                                                 *)
(*                                                                         *)
(* Representation.  A byte is a number in 0..255 and a Go string or        *)
(* []byte is a sequence of bytes.  TLC's integers are 32 bits wide, so a   *)
(* uint32 is the record [hi, lo] of its two 16-bit halves and a            *)
(* uint64/int64 is the sequence of its four 16-bit limbs, least            *)
(* significant first; all arithmetic on them is done limb by limb modulo   *)
(* 2^32 and 2^64 as Go does it.  A time.Time made by time.Unix(0, n) is    *)
(* the int64 n (its nanoseconds since the Unix epoch) and the zero         *)
(* time.Time is the empty sequence.                                        *)
(***************************************************************************)
EXTENDS Integers, Sequences, FiniteSets, TLC

VARIABLES st, orig, tk, hk, st2, pkg

vars == <<st, orig, tk, hk, st2, pkg>>

(***************************************************************************)
(* Fixed-width arithmetic                                                  *)
(***************************************************************************)
Limb == 256 * 256

Min(a, b) == IF a < b THEN a ELSE b

Zeros(n) == [i \in 1..n |-> 0]

\* x * k + c modulo Limb^Len(x), for a small k (Go's wrapping uintN multiply)
RECURSIVE MulAdd(_, _, _)
MulAdd(x, k, c) ==
    IF x = <<>> THEN <<>>
    ELSE LET p == Head(x) * k + c
         IN  <<p % Limb>> \o MulAdd(Tail(x), k, p \div Limb)

\* x - y - b modulo Limb^Len(x) (Go's wrapping uintN subtract)
RECURSIVE SubBorrow(_, _, _)
SubBorrow(x, y, b) ==
    IF x = <<>> THEN <<>>
    ELSE LET d == Head(x) - Head(y) - b
         IN  <<(d + Limb) % Limb>> \o SubBorrow(Tail(x), Tail(y), IF d < 0 THEN 1 ELSE 0)

\* the number written with the decimal digits ds, modulo Limb^Len(acc)
RECURSIVE Decimal(_, _)
Decimal(ds, acc) ==
    IF ds = <<>> THEN acc ELSE Decimal(Tail(ds), MulAdd(acc, 10, Head(ds)))

\* bitwise AND of two 16-bit numbers
RECURSIVE And16(_, _)
And16(a, b) ==
    IF a = 0 \/ b = 0 THEN 0
    ELSE (a % 2) * (b % 2) + 2 * And16(a \div 2, b \div 2)

\* a uint32 literal 0xHHHHLLLL
U32(h, l) == [hi |-> h, lo |-> l]

\* w & mask != 0 on uint32
MaskSet(w, mask) == And16(w.hi, mask.hi) # 0 \/ And16(w.lo, mask.lo) # 0

\* w > n on uint32, for a literal n < 65536
Gt32(w, n) == w.hi > 0 \/ w.lo > n

(***************************************************************************)
(* binary.LittleEndian decoding                                            *)
(***************************************************************************)
LittleEndianUint16(b) == b[1] + 256 * b[2]

LittleEndianUint32(b) == U32(b[3] + 256 * b[4], b[1] + 256 * b[2])

LittleEndianUint64(b) ==
    <<b[1] + 256 * b[2], b[3] + 256 * b[4], b[5] + 256 * b[6], b[7] + 256 * b[8]>>

(***************************************************************************)
(* Package-level values                                                    *)
(***************************************************************************)
\* validCLSID with its last byte mistyped
validCLSID_Typo ==
    << \h01, \h14, \h02, \h00,
       \h00, \h00,
       \h00, \h00,
       \hc0, \h00,
       \h00, \h00, \h00, \h00, \h00, \h47 >>

validCLSID ==
    << \h01, \h14, \h02, \h00,
       \h00, \h00,
       \h00, \h00,
       \hc0, \h00,
       \h00, \h00, \h00, \h00, \h00, \h46 >>

\* the literal 11644473600000000000 of windowsNanoToTime, as a uint64
EpochOffsetNanos ==
    Decimal(<<1,1,6,4,4,4,7,3,6,0,0,0,0,0,0,0,0,0,0,0>>, Zeros(4))

\* windowsNanoToTime subtracting the offset in ticks from the nanoseconds
windowsNanoToTime_TickOffset(windowsNano) ==
    SubBorrow(MulAdd(windowsNano, 100, 0),
              Decimal(<<1,1,6,4,4,4,7,3,6,0,0,0,0,0,0,0,0,0>>, Zeros(4)), 0)

\* int64(100*windowsNano - 11644473600000000000): both operations wrap in
\* uint64 and the cast to int64 keeps the bit pattern
windowsNanoToTime(windowsNano) ==
    SubBorrow(MulAdd(windowsNano, 100, 0), EpochOffsetNanos, 0)

ZeroTime == <<>>

(***************************************************************************)
(* Go strings as byte sequences                                            *)
(***************************************************************************)
StrShift == <<83, 104, 105, 102, 116, 43>>       \* "Shift+"
StrCtrl  == <<67, 116, 114, 108, 43>>            \* "Ctrl+"
StrAlt   == <<65, 108, 116, 43>>                 \* "Alt+"
StrF     == <<70>>                               \* "F"
StrNumLk == <<78, 117, 109, 76, 107>>            \* "NumLk"
StrScrLK == <<83, 99, 114, 76, 75>>              \* "ScrLK"

\* strconv.Itoa for n >= 0: the decimal digits, most significant first
RECURSIVE Itoa(_)
Itoa(n) == IF n < 10 THEN <<48 + n>> ELSE Itoa(n \div 10) \o <<48 + (n % 10)>>

\* string(b) for a byte b: the UTF-8 encoding of the code point U+00bb
RuneString(b) ==
    IF b < 128 THEN <<b>> ELSE <<192 + (b \div 64), 128 + (b % 64)>>

\* HotKey.String with the two lock keys' tokens exchanged
HotKeyString_Swapped(hotKey) ==
    LET s1 == IF hotKey.Shift THEN StrShift ELSE <<>>
        s2 == IF hotKey.Ctrl THEN s1 \o StrCtrl ELSE s1
        s3 == IF hotKey.Alt THEN s2 \o StrAlt ELSE s2
    IN  IF hotKey.Key >= \h70 /\ hotKey.Key <= \h87
          THEN s3 \o StrF \o Itoa(hotKey.Key - \h6f)
        ELSE IF hotKey.Key = \h90 THEN s3 \o StrScrLK
        ELSE IF hotKey.Key = \h91 THEN s3 \o StrNumLk
        ELSE s3 \o RuneString(hotKey.Key)

\* HotKey.String testing Ctrl before Shift
HotKeyString_CtrlFirst(hotKey) ==
    LET s1 == IF hotKey.Ctrl THEN StrCtrl ELSE <<>>
        s2 == IF hotKey.Shift THEN s1 \o StrShift ELSE s1
        s3 == IF hotKey.Alt THEN s2 \o StrAlt ELSE s2
    IN  IF hotKey.Key >= \h70 /\ hotKey.Key <= \h87
          THEN s3 \o StrF \o Itoa(hotKey.Key - \h6f)
        ELSE IF hotKey.Key = \h90 THEN s3 \o StrNumLk
        ELSE IF hotKey.Key = \h91 THEN s3 \o StrScrLK
        ELSE s3 \o RuneString(hotKey.Key)

\* func (hotKey HotKey) String() string
HotKeyString(hotKey) ==
    LET s1 == IF hotKey.Shift THEN StrShift ELSE <<>>
        s2 == IF hotKey.Ctrl THEN s1 \o StrCtrl ELSE s1
        s3 == IF hotKey.Alt THEN s2 \o StrAlt ELSE s2
    IN  IF hotKey.Key >= \h70 /\ hotKey.Key <= \h87
          THEN s3 \o StrF \o Itoa(hotKey.Key - \h6f)
        ELSE IF hotKey.Key = \h90 THEN s3 \o StrNumLk
        ELSE IF hotKey.Key = \h91 THEN s3 \o StrScrLK
        ELSE s3 \o RuneString(hotKey.Key)

\* strings.Trim(s, "\x00"): drop every leading and trailing NUL
RECURSIVE TrimLeft(_)
TrimLeft(s) == IF s # <<>> /\ Head(s) = 0 THEN TrimLeft(Tail(s)) ELSE s

RECURSIVE TrimRight(_)
TrimRight(s) ==
    IF s # <<>> /\ s[Len(s)] = 0 THEN TrimRight(SubSeq(s, 1, Len(s) - 1)) ELSE s

Trim(s) == TrimRight(TrimLeft(s))

(***************************************************************************)
(* The record: new(LNK)                                                    *)
(***************************************************************************)
Zero32 == U32(0, 0)

ZeroHotKey == [Key |-> 0, Shift |-> FALSE, Ctrl |-> FALSE, Alt |-> FALSE]

\* a nil []byte; make([]byte, n) is [isNil |-> FALSE, data |-> Zeros(n)]
NilBytes == [isNil |-> TRUE, data |-> <<>>]

ZeroLNK ==
    [ HasTargetIDList |-> FALSE, HasLinkInfo |-> FALSE, HasName |-> FALSE,
      HasRelativePath |-> FALSE, HasWorkingDir |-> FALSE, HasArguments |-> FALSE,
      HasIconLocation |-> FALSE, IsUnicode |-> FALSE, ForceNoLinkInfo |-> FALSE,
      HasExpString |-> FALSE, RunInSeperateProcess |-> FALSE, HasDarwinID |-> FALSE,
      RunAsUser |-> FALSE, HasExpIcon |-> FALSE, NoPidlAlias |-> FALSE,
      RunWithShimLayer |-> FALSE, ForceNoLinkTrack |-> FALSE,
      EnableTargetMetadata |-> FALSE, DisableLinkPathTracking |-> FALSE,
      DisableKnownFolderTracking |-> FALSE, DisableKnownFolderAlias |-> FALSE,
      AllowLinkToLink |-> FALSE, UnaliasOnSave |-> FALSE,
      PreferEnvironmentPath |-> FALSE, KeepLocalIDListForUNCTarget |-> FALSE,
      ReadOnly |-> FALSE, Hidden |-> FALSE, System |-> FALSE, Directory |-> FALSE,
      Archive |-> FALSE, Normal |-> FALSE, Temporary |-> FALSE, SparseFile |-> FALSE,
      ReparsePoint |-> FALSE, Compressed |-> FALSE, Offline |-> FALSE,
      NotContentIndexed |-> FALSE, Encrypted |-> FALSE,
      CreationTime |-> ZeroTime, AccessTime |-> ZeroTime, WriteTime |-> ZeroTime,
      FileSize |-> Zero32, IconIndex |-> Zero32, ShowCommand |-> Zero32,
      HotKey |-> ZeroHotKey,
      IDListBytes |-> NilBytes,
      LinkInfoSize |-> Zero32, LinkInfoHeaderSize |-> Zero32,
      VolumeIDAndLocalBasePath |-> FALSE,
      CommonNetworkRelativeLinkAndPathSuffix |-> FALSE,
      VolumeIDOffset |-> Zero32, LocalBasePathOffset |-> Zero32,
      CommonNetworkRelativeLinkOffset |-> Zero32, CommonPathSuffixOffset |-> Zero32,
      LocalBasePathOffsetUnicode |-> Zero32, CommonPathSuffixOffsetUnicode |-> Zero32,
      VolumeIDSize |-> Zero32, DriveType |-> Zero32, DriveSerialNumber |-> Zero32,
      VolumeLabelOffset |-> Zero32, VolumeLabelOffsetUnicode |-> Zero32,
      VolumeLabel |-> <<>>, LocalBasePath |-> <<>> ]

(***************************************************************************)
(* The byte source.  A decoder state s holds the input and the offset pos  *)
(* of the next byte the io.Reader will deliver; rd describes the reader:   *)
(* chunk is the most bytes one Read call returns (0: no limit) and         *)
(* zeroEOF says whether a Read into an empty slice at the end of the       *)
(* stream returns io.EOF (bytes.Reader) or nil (os.File).  reads is the    *)
(* history of the calls made on the reader.                                *)
(***************************************************************************)
\* bufio's defaultBufSize, the size bufio.NewReader gives the buffer
DefaultBufSize == 4096

\* one file.Read(p) with len(p) = n
FileRead(s, n, who) ==
    LET avail == Len(s.input) - s.pos
        most  == IF s.rd.chunk = 0 THEN Min(n, avail) ELSE Min(Min(n, avail), s.rd.chunk)
        e     == IF avail = 0 /\ (n > 0 \/ s.rd.zeroEOF) THEN "EOF" ELSE "nil"
    IN  [ n    |-> most,
          err  |-> e,
          data |-> SubSeq(s.input, s.pos + 1, s.pos + most),
          s    |-> [s EXCEPT !.pos = @ + most,
                             !.reads = Append(@, [via |-> who, at |-> s.pos,
                                                  want |-> n, got |-> most,
                                                  step |-> s.pc])] ]

\* binary.Read(file, endianness, &x) for an x of n bytes: io.ReadFull, which
\* calls Read until n bytes have come or the stream ends
BinaryRead(s, n) ==
    LET avail == Len(s.input) - s.pos
        most  == Min(n, avail)
        e     == IF most = n THEN "nil"
                 ELSE IF most = 0 THEN "EOF" ELSE "ErrUnexpectedEOF"
    IN  [ n    |-> most,
          err  |-> e,
          data |-> SubSeq(s.input, s.pos + 1, s.pos + most),
          s    |-> [s EXCEPT !.pos = @ + most,
                             !.reads = Append(@, [via |-> "file", at |-> s.pos,
                                                  want |-> n, got |-> most,
                                                  step |-> s.pc])] ]

\* the index of the first NUL of b, 0 when it has none
IndexNul(b) ==
    IF \E i \in 1..Len(b) : b[i] = 0
      THEN CHOOSE i \in 1..Len(b) : b[i] = 0 /\ \A j \in 1..(i - 1) : b[j] # 0
      ELSE 0

\* reader.ReadString('\x00') on the bufio.Reader wrapping file: s.buf is the
\* buffered, not yet delivered, part; the buffer is filled from file by one
\* Read of the free space at a time
RECURSIVE ReadString(_, _)
ReadString(s, acc) ==
    LET i == IndexNul(s.buf)
    IN  IF i > 0
          THEN [ str |-> acc \o SubSeq(s.buf, 1, i), err |-> "nil",
                 s   |-> [s EXCEPT !.buf = SubSeq(@, i + 1, Len(@))] ]
        ELSE IF Len(s.buf) >= DefaultBufSize
          THEN ReadString([s EXCEPT !.buf = <<>>], acc \o s.buf)
        ELSE LET r == FileRead(s, DefaultBufSize - Len(s.buf), "bufio")
             IN  IF r.err # "nil"
                   THEN [ str |-> acc \o s.buf, err |-> r.err,
                          s   |-> [r.s EXCEPT !.buf = <<>>] ]
                   ELSE ReadString([r.s EXCEPT !.buf = @ \o r.data], acc)

\* Return handing back an empty record with an error
Return_Reset(s, e) ==
    [s EXCEPT !.pc = "done", !.err = e, !.lnk = IF e # "nil" THEN ZeroLNK ELSE @]

\* return lnk, e
Return(s, e) == [s EXCEPT !.pc = "done", !.err = e]

Goto(s, p) == [s EXCEPT !.pc = p]

\* Open's state on entry: reader := bufio.NewReader(file); lnk := new(LNK)
Start(bytes, reader) ==
    [ pc |-> "headerSize", input |-> bytes, pos |-> 0, rd |-> reader,
      buf |-> <<>>, lnk |-> ZeroLNK, err |-> "nil", reads |-> <<>>,
      loc |-> [reserved1 |-> 0, reserved2 |-> Zero32, reserved3 |-> Zero32,
               idListSize |-> 0] ]

(***************************************************************************)
(* Open, one operator per read statement with the checks and assignments   *)
(* that follow it.  Each maps the decoder state at that statement to the   *)
(* state at the next one, or to "done" with the error returned.            *)
(***************************************************************************)
\* ReadHeaderSize comparing only the low 16 bits with 76
ReadHeaderSize_LowHalf(s) ==
    LET r == BinaryRead(s, 4)
    IN  IF r.err # "nil" THEN Return(r.s, r.err)
        ELSE IF LittleEndianUint32(r.data).lo # 76
          THEN Return(r.s, "ErrInvalidHeaderSize")
        ELSE Goto(r.s, "clsid")

\* open.go 30-37
ReadHeaderSize(s) ==
    LET r == BinaryRead(s, 4)
    IN  IF r.err # "nil" THEN Return(r.s, r.err)
        ELSE IF LittleEndianUint32(r.data) # U32(0, 76)
          THEN Return(r.s, "ErrInvalidHeaderSize")
        ELSE Goto(r.s, "clsid")

\* open.go 39-46: one Read into a zeroed [16]byte, whose count is dropped;
\* valid is the value the package-level validCLSID holds at the comparison
ReadCLSIDWith(valid, s) ==
    LET r == FileRead(s, 16, "file")
        clsid == r.data \o Zeros(16 - r.n)
    IN  IF r.err # "nil" THEN Return(r.s, r.err)
        ELSE IF clsid # valid THEN Return(r.s, "ErrInvalidCLSID")
        ELSE Goto(r.s, "linkFlags")

ReadCLSID(s) == ReadCLSIDWith(validCLSID, s)

\* LinkFlagFields with the mask of HasDarwinID pasted for RunAsUser
LinkFlagFields_PastedMask(lnk, linkFlags) ==
    [lnk EXCEPT
      !.HasTargetIDList = MaskSet(linkFlags, U32(\h0000, \h0001)),
      !.HasLinkInfo = MaskSet(linkFlags, U32(\h0000, \h0002)),
      !.HasName = MaskSet(linkFlags, U32(\h0000, \h0004)),
      !.HasRelativePath = MaskSet(linkFlags, U32(\h0000, \h0008)),
      !.HasWorkingDir = MaskSet(linkFlags, U32(\h0000, \h0010)),
      !.HasArguments = MaskSet(linkFlags, U32(\h0000, \h0020)),
      !.HasIconLocation = MaskSet(linkFlags, U32(\h0000, \h0040)),
      !.IsUnicode = MaskSet(linkFlags, U32(\h0000, \h0080)),
      !.ForceNoLinkInfo = MaskSet(linkFlags, U32(\h0000, \h0100)),
      !.HasExpString = MaskSet(linkFlags, U32(\h0000, \h0200)),
      !.RunInSeperateProcess = MaskSet(linkFlags, U32(\h0000, \h0400)),
      !.HasDarwinID = MaskSet(linkFlags, U32(\h0000, \h1000)),
      !.RunAsUser = MaskSet(linkFlags, U32(\h0000, \h1000)),
      !.HasExpIcon = MaskSet(linkFlags, U32(\h0000, \h4000)),
      !.NoPidlAlias = MaskSet(linkFlags, U32(\h0000, \h8000)),
      !.RunWithShimLayer = MaskSet(linkFlags, U32(\h0002, \h0000)),
      !.ForceNoLinkTrack = MaskSet(linkFlags, U32(\h0004, \h0000)),
      !.EnableTargetMetadata = MaskSet(linkFlags, U32(\h0008, \h0000)),
      !.DisableLinkPathTracking = MaskSet(linkFlags, U32(\h0010, \h0000)),
      !.DisableKnownFolderTracking = MaskSet(linkFlags, U32(\h0020, \h0000)),
      !.DisableKnownFolderAlias = MaskSet(linkFlags, U32(\h0040, \h0000)),
      !.AllowLinkToLink = MaskSet(linkFlags, U32(\h0080, \h0000)),
      !.UnaliasOnSave = MaskSet(linkFlags, U32(\h0100, \h0000)),
      !.PreferEnvironmentPath = MaskSet(linkFlags, U32(\h0200, \h0000)),
      !.KeepLocalIDListForUNCTarget = MaskSet(linkFlags, U32(\h0400, \h0000))]

\* open.go 53-79
LinkFlagFields(lnk, linkFlags) ==
    [lnk EXCEPT
      !.HasTargetIDList = MaskSet(linkFlags, U32(\h0000, \h0001)),
      !.HasLinkInfo = MaskSet(linkFlags, U32(\h0000, \h0002)),
      !.HasName = MaskSet(linkFlags, U32(\h0000, \h0004)),
      !.HasRelativePath = MaskSet(linkFlags, U32(\h0000, \h0008)),
      !.HasWorkingDir = MaskSet(linkFlags, U32(\h0000, \h0010)),
      !.HasArguments = MaskSet(linkFlags, U32(\h0000, \h0020)),
      !.HasIconLocation = MaskSet(linkFlags, U32(\h0000, \h0040)),
      !.IsUnicode = MaskSet(linkFlags, U32(\h0000, \h0080)),
      !.ForceNoLinkInfo = MaskSet(linkFlags, U32(\h0000, \h0100)),
      !.HasExpString = MaskSet(linkFlags, U32(\h0000, \h0200)),
      !.RunInSeperateProcess = MaskSet(linkFlags, U32(\h0000, \h0400)),
      !.HasDarwinID = MaskSet(linkFlags, U32(\h0000, \h1000)),
      !.RunAsUser = MaskSet(linkFlags, U32(\h0000, \h2000)),
      !.HasExpIcon = MaskSet(linkFlags, U32(\h0000, \h4000)),
      !.NoPidlAlias = MaskSet(linkFlags, U32(\h0000, \h8000)),
      !.RunWithShimLayer = MaskSet(linkFlags, U32(\h0002, \h0000)),
      !.ForceNoLinkTrack = MaskSet(linkFlags, U32(\h0004, \h0000)),
      !.EnableTargetMetadata = MaskSet(linkFlags, U32(\h0008, \h0000)),
      !.DisableLinkPathTracking = MaskSet(linkFlags, U32(\h0010, \h0000)),
      !.DisableKnownFolderTracking = MaskSet(linkFlags, U32(\h0020, \h0000)),
      !.DisableKnownFolderAlias = MaskSet(linkFlags, U32(\h0040, \h0000)),
      !.AllowLinkToLink = MaskSet(linkFlags, U32(\h0080, \h0000)),
      !.UnaliasOnSave = MaskSet(linkFlags, U32(\h0100, \h0000)),
      !.PreferEnvironmentPath = MaskSet(linkFlags, U32(\h0200, \h0000)),
      !.KeepLocalIDListForUNCTarget = MaskSet(linkFlags, U32(\h0400, \h0000))]

\* open.go 48-79
ReadLinkFlags(s) ==
    LET r == BinaryRead(s, 4)
    IN  IF r.err # "nil" THEN Return(r.s, r.err)
        ELSE Goto([r.s EXCEPT !.lnk = LinkFlagFields(@, LittleEndianUint32(r.data))],
                  "fileAttributes")

\* open.go 86-100
FileAttributeFields(lnk, fileAttributes) ==
    [lnk EXCEPT
      !.ReadOnly = MaskSet(fileAttributes, U32(\h0000, \h0001)),
      !.Hidden = MaskSet(fileAttributes, U32(\h0000, \h0002)),
      !.System = MaskSet(fileAttributes, U32(\h0000, \h0004)),
      !.Directory = MaskSet(fileAttributes, U32(\h0000, \h0010)),
      !.Archive = MaskSet(fileAttributes, U32(\h0000, \h0020)),
      !.Normal = MaskSet(fileAttributes, U32(\h0000, \h0080)),
      !.Temporary = MaskSet(fileAttributes, U32(\h0000, \h0100)),
      !.SparseFile = MaskSet(fileAttributes, U32(\h0000, \h0200)),
      !.ReparsePoint = MaskSet(fileAttributes, U32(\h0000, \h0400)),
      !.Compressed = MaskSet(fileAttributes, U32(\h0000, \h0800)),
      !.Offline = MaskSet(fileAttributes, U32(\h0000, \h1000)),
      !.NotContentIndexed = MaskSet(fileAttributes, U32(\h0000, \h2000)),
      !.Encrypted = MaskSet(fileAttributes, U32(\h0000, \h4000))]

\* open.go 101: fileAttributes&0x00000008 != 0 || fileAttributes&0x00000040 != 0
FileAttributesReserved(fileAttributes) ==
    \/ MaskSet(fileAttributes, U32(\h0000, \h0008))
    \/ MaskSet(fileAttributes, U32(\h0000, \h0040))

\* open.go 81-103
ReadFileAttributes(s) ==
    LET r == BinaryRead(s, 4)
        fileAttributes == LittleEndianUint32(r.data)
        s2 == [r.s EXCEPT !.lnk = FileAttributeFields(@, fileAttributes)]
    IN  IF r.err # "nil" THEN Return(r.s, r.err)
        ELSE IF FileAttributesReserved(fileAttributes)
          THEN Return(s2, "ErrReservedBitSet")
        ELSE Goto(s2, "creationTime")

\* open.go 105-110
ReadCreationTime(s) ==
    LET r == BinaryRead(s, 8)
    IN  IF r.err # "nil" THEN Return(r.s, r.err)
        ELSE Goto([r.s EXCEPT !.lnk.CreationTime =
                                 windowsNanoToTime(LittleEndianUint64(r.data))],
                  "accessTime")

\* open.go 112-117
ReadAccessTime(s) ==
    LET r == BinaryRead(s, 8)
    IN  IF r.err # "nil" THEN Return(r.s, r.err)
        ELSE Goto([r.s EXCEPT !.lnk.AccessTime =
                                 windowsNanoToTime(LittleEndianUint64(r.data))],
                  "writeTime")

\* open.go 119-124
ReadWriteTime(s) ==
    LET r == BinaryRead(s, 8)
    IN  IF r.err # "nil" THEN Return(r.s, r.err)
        ELSE Goto([r.s EXCEPT !.lnk.WriteTime =
                                 windowsNanoToTime(LittleEndianUint64(r.data))],
                  "fileSize")

\* open.go 126-129
ReadFileSize(s) ==
    LET r == BinaryRead(s, 4)
    IN  IF r.err # "nil" THEN Return(r.s, r.err)
        ELSE Goto([r.s EXCEPT !.lnk.FileSize = LittleEndianUint32(r.data)], "iconIndex")

\* open.go 131-134 (IconIndex is an int32: the record keeps its bit pattern)
ReadIconIndex(s) ==
    LET r == BinaryRead(s, 4)
    IN  IF r.err # "nil" THEN Return(r.s, r.err)
        ELSE Goto([r.s EXCEPT !.lnk.IconIndex = LittleEndianUint32(r.data)], "showCommand")

\* open.go 136-139
ReadShowCommand(s) ==
    LET r == BinaryRead(s, 4)
    IN  IF r.err # "nil" THEN Return(r.s, r.err)
        ELSE Goto([r.s EXCEPT !.lnk.ShowCommand = LittleEndianUint32(r.data)], "hotKeyKey")

\* InvalidHotKey with its bounds taken inclusive
InvalidHotKey_Inclusive(Key) ==
    \/ Key <= \h30
    \/ (Key >= \h39 /\ Key <= \h41)
    \/ (Key >= \h5a /\ Key <= \h70)
    \/ (Key >= \h87 /\ Key <= \h90)
    \/ Key > \h91

\* open.go 145: the condition under which the key code is refused
InvalidHotKey(Key) ==
    \/ Key < \h30
    \/ (Key > \h39 /\ Key < \h41)
    \/ (Key > \h5a /\ Key < \h70)
    \/ (Key > \h87 /\ Key < \h90)
    \/ Key > \h91

\* open.go 141-147
ReadHotKeyKey(s) ==
    LET r == BinaryRead(s, 1)
        s2 == [r.s EXCEPT !.lnk.HotKey.Key = r.data[1]]
    IN  IF r.err # "nil" THEN Return(r.s, r.err)
        ELSE IF InvalidHotKey(r.data[1]) THEN Return(s2, "ErrInvalidHotKey")
        ELSE Goto(s2, "highByte")

\* open.go 149-156
ReadHighByte(s) ==
    LET r == BinaryRead(s, 1)
        highByte == r.data[1]
    IN  IF r.err # "nil" THEN Return(r.s, r.err)
        ELSE Goto([r.s EXCEPT !.lnk.HotKey.Shift = And16(highByte, \h01) # 0,
                              !.lnk.HotKey.Ctrl = And16(highByte, \h02) # 0,
                              !.lnk.HotKey.Alt = And16(highByte, \h04) # 0],
                  "reserved1")

\* open.go 180, 193: which section follows the header, and which the ID list
AfterIDList(lnk) == IF lnk.HasLinkInfo THEN "linkInfoSize" ELSE "done"

\* AfterHeader reading an ID list whatever the flag says
AfterHeader_Always(lnk) == "idListSize"

AfterHeader(lnk) == IF lnk.HasTargetIDList THEN "idListSize" ELSE AfterIDList(lnk)

\* ReadReserved1 taking the field to be as wide as the two after it
ReadReserved1_Wide(s) ==
    LET r == BinaryRead(s, 4)
    IN  IF r.err # "nil" THEN Return(r.s, r.err)
        ELSE Goto([r.s EXCEPT !.loc.reserved1 = LittleEndianUint16(r.data)], "reserved2")

\* open.go 158-162
ReadReserved1(s) ==
    LET r == BinaryRead(s, 2)
    IN  IF r.err # "nil" THEN Return(r.s, r.err)
        ELSE Goto([r.s EXCEPT !.loc.reserved1 = LittleEndianUint16(r.data)], "reserved2")

\* open.go 164-168
ReadReserved2(s) ==
    LET r == BinaryRead(s, 4)
    IN  IF r.err # "nil" THEN Return(r.s, r.err)
        ELSE Goto([r.s EXCEPT !.loc.reserved2 = LittleEndianUint32(r.data)], "reserved3")

\* ReadReserved3 leaving reserved1 out of the check
ReadReserved3_NoReserved1(s) ==
    LET r == BinaryRead(s, 4)
        s2 == [r.s EXCEPT !.loc.reserved3 = LittleEndianUint32(r.data)]
    IN  IF r.err # "nil" THEN Return(r.s, r.err)
        ELSE IF \/ s2.loc.reserved2 # Zero32
                \/ s2.loc.reserved3 # Zero32
          THEN Return(s2, "ErrReservedBitSet")
        ELSE Goto(s2, AfterHeader(s2.lnk))

\* ReadReserved3 going on to the sections without the check
ReadReserved3_Unchecked(s) ==
    LET r == BinaryRead(s, 4)
        s2 == [r.s EXCEPT !.loc.reserved3 = LittleEndianUint32(r.data)]
    IN  IF r.err # "nil" THEN Return(r.s, r.err)
        ELSE Goto(s2, AfterHeader(s2.lnk))

\* open.go 170-178: the three reserved fields are checked together, here
ReadReserved3(s) ==
    LET r == BinaryRead(s, 4)
        s2 == [r.s EXCEPT !.loc.reserved3 = LittleEndianUint32(r.data)]
    IN  IF r.err # "nil" THEN Return(r.s, r.err)
        ELSE IF \/ s2.loc.reserved1 # 0
                \/ s2.loc.reserved2 # Zero32
                \/ s2.loc.reserved3 # Zero32
          THEN Return(s2, "ErrReservedBitSet")
        ELSE Goto(s2, AfterHeader(s2.lnk))

\* open.go 181-186
ReadIDListSize(s) ==
    LET r == BinaryRead(s, 2)
        idListSize == LittleEndianUint16(r.data)
    IN  IF r.err # "nil" THEN Return(r.s, r.err)
        ELSE Goto([r.s EXCEPT !.loc.idListSize = idListSize,
                              !.lnk.IDListBytes = [isNil |-> FALSE,
                                                   data |-> Zeros(idListSize)]],
                  "idListBytes")

\* open.go 187-191: one Read into the zeroed slice, whose count is dropped
ReadIDListBytes(s) ==
    LET r == FileRead(s, s.loc.idListSize, "file")
        s2 == [r.s EXCEPT !.lnk.IDListBytes.data =
                             r.data \o Zeros(s.loc.idListSize - r.n)]
    IN  IF r.err # "nil" THEN Return(s2, r.err)
        ELSE Goto(s2, AfterIDList(s2.lnk))

\* ReadLinkInfoSize refusing a LinkInfo that declares no size
ReadLinkInfoSize_Checked(s) ==
    LET r == BinaryRead(s, 4)
    IN  IF r.err # "nil" THEN Return(r.s, r.err)
        ELSE IF LittleEndianUint32(r.data) = Zero32 THEN Return(r.s, "ErrUnexpectedEOF")
        ELSE Goto([r.s EXCEPT !.lnk.LinkInfoSize = LittleEndianUint32(r.data)],
                  "linkInfoHeaderSize")

\* open.go 194-197
ReadLinkInfoSize(s) ==
    LET r == BinaryRead(s, 4)
    IN  IF r.err # "nil" THEN Return(r.s, r.err)
        ELSE Goto([r.s EXCEPT !.lnk.LinkInfoSize = LittleEndianUint32(r.data)],
                  "linkInfoHeaderSize")

\* open.go 199-202
ReadLinkInfoHeaderSize(s) ==
    LET r == BinaryRead(s, 4)
    IN  IF r.err # "nil" THEN Return(r.s, r.err)
        ELSE Goto([r.s EXCEPT !.lnk.LinkInfoHeaderSize = LittleEndianUint32(r.data)],
                  "linkInfoFlags")

\* open.go 204-210
ReadLinkInfoFlags(s) ==
    LET r == BinaryRead(s, 4)
        linkInfoFlags == LittleEndianUint32(r.data)
    IN  IF r.err # "nil" THEN Return(r.s, r.err)
        ELSE Goto([r.s EXCEPT
                     !.lnk.VolumeIDAndLocalBasePath =
                         MaskSet(linkInfoFlags, U32(0, 1)),
                     !.lnk.CommonNetworkRelativeLinkAndPathSuffix =
                         MaskSet(linkInfoFlags, U32(0, 2))],
                  "volumeIDOffset")

\* open.go 212-215
ReadVolumeIDOffset(s) ==
    LET r == BinaryRead(s, 4)
    IN  IF r.err # "nil" THEN Return(r.s, r.err)
        ELSE Goto([r.s EXCEPT !.lnk.VolumeIDOffset = LittleEndianUint32(r.data)],
                  "localBasePathOffset")

\* open.go 217-220
ReadLocalBasePathOffset(s) ==
    LET r == BinaryRead(s, 4)
    IN  IF r.err # "nil" THEN Return(r.s, r.err)
        ELSE Goto([r.s EXCEPT !.lnk.LocalBasePathOffset = LittleEndianUint32(r.data)],
                  "commonNetworkRelativeLinkOffset")

\* open.go 222-225
ReadCommonNetworkRelativeLinkOffset(s) ==
    LET r == BinaryRead(s, 4)
    IN  IF r.err # "nil" THEN Return(r.s, r.err)
        ELSE Goto([r.s EXCEPT !.lnk.CommonNetworkRelativeLinkOffset =
                                 LittleEndianUint32(r.data)],
                  "commonPathSuffixOffset")

\* AfterOffsets testing the other LinkInfo sub-flag
AfterOffsets_OtherFlag(lnk) ==
    IF lnk.CommonNetworkRelativeLinkAndPathSuffix THEN "volumeIDSize" ELSE "done"

\* open.go 246: what follows the LinkInfo offsets
AfterOffsets(lnk) == IF lnk.VolumeIDAndLocalBasePath THEN "volumeIDSize" ELSE "done"

\* AfterLocalBasePathOffsetUnicode with the threshold of the first field
AfterLocalBasePathOffsetUnicode_Over28(lnk) ==
    IF Gt32(lnk.LinkInfoHeaderSize, 28) THEN "commonPathSuffixOffsetUnicode"
    ELSE AfterOffsets(lnk)

\* open.go 239
AfterLocalBasePathOffsetUnicode(lnk) ==
    IF Gt32(lnk.LinkInfoHeaderSize, 32) THEN "commonPathSuffixOffsetUnicode"
    ELSE AfterOffsets(lnk)

\* open.go 232
AfterCommonPathSuffixOffset(lnk) ==
    IF Gt32(lnk.LinkInfoHeaderSize, 28) THEN "localBasePathOffsetUnicode"
    ELSE AfterLocalBasePathOffsetUnicode(lnk)

\* open.go 227-232
ReadCommonPathSuffixOffset(s) ==
    LET r == BinaryRead(s, 4)
        s2 == [r.s EXCEPT !.lnk.CommonPathSuffixOffset = LittleEndianUint32(r.data)]
    IN  IF r.err # "nil" THEN Return(r.s, r.err)
        ELSE Goto(s2, AfterCommonPathSuffixOffset(s2.lnk))

\* open.go 233-239
ReadLocalBasePathOffsetUnicode(s) ==
    LET r == BinaryRead(s, 4)
        s2 == [r.s EXCEPT !.lnk.LocalBasePathOffsetUnicode = LittleEndianUint32(r.data)]
    IN  IF r.err # "nil" THEN Return(r.s, r.err)
        ELSE Goto(s2, AfterLocalBasePathOffsetUnicode(s2.lnk))

\* open.go 240-246
ReadCommonPathSuffixOffsetUnicode(s) ==
    LET r == BinaryRead(s, 4)
        s2 == [r.s EXCEPT !.lnk.CommonPathSuffixOffsetUnicode =
                             LittleEndianUint32(r.data)]
    IN  IF r.err # "nil" THEN Return(r.s, r.err)
        ELSE Goto(s2, AfterOffsets(s2.lnk))

\* open.go 247-250
ReadVolumeIDSize(s) ==
    LET r == BinaryRead(s, 4)
    IN  IF r.err # "nil" THEN Return(r.s, r.err)
        ELSE Goto([r.s EXCEPT !.lnk.VolumeIDSize = LittleEndianUint32(r.data)],
                  "driveType")

\* open.go 252-255
ReadDriveType(s) ==
    LET r == BinaryRead(s, 4)
    IN  IF r.err # "nil" THEN Return(r.s, r.err)
        ELSE Goto([r.s EXCEPT !.lnk.DriveType = LittleEndianUint32(r.data)],
                  "driveSerialNumber")

\* open.go 257-260
ReadDriveSerialNumber(s) ==
    LET r == BinaryRead(s, 4)
    IN  IF r.err # "nil" THEN Return(r.s, r.err)
        ELSE Goto([r.s EXCEPT !.lnk.DriveSerialNumber = LittleEndianUint32(r.data)],
                  "volumeLabelOffset")

\* ReadVolumeLabelOffset taking 16 itself to announce the Unicode offset
ReadVolumeLabelOffset_AtLeast16(s) ==
    LET r == BinaryRead(s, 4)
        s2 == [r.s EXCEPT !.lnk.VolumeLabelOffset = LittleEndianUint32(r.data)]
    IN  IF r.err # "nil" THEN Return(r.s, r.err)
        ELSE Goto(s2, IF Gt32(s2.lnk.VolumeLabelOffset, 15)
                        THEN "volumeLabelOffsetUnicode" ELSE "volumeLabel")

\* open.go 262-267
ReadVolumeLabelOffset(s) ==
    LET r == BinaryRead(s, 4)
        s2 == [r.s EXCEPT !.lnk.VolumeLabelOffset = LittleEndianUint32(r.data)]
    IN  IF r.err # "nil" THEN Return(r.s, r.err)
        ELSE Goto(s2, IF Gt32(s2.lnk.VolumeLabelOffset, 16)
                        THEN "volumeLabelOffsetUnicode" ELSE "volumeLabel")

\* open.go 268-272
ReadVolumeLabelOffsetUnicode(s) ==
    LET r == BinaryRead(s, 4)
    IN  IF r.err # "nil" THEN Return(r.s, r.err)
        ELSE Goto([r.s EXCEPT !.lnk.VolumeLabelOffsetUnicode =
                                 LittleEndianUint32(r.data)],
                  "volumeLabel")

\* open.go 274-278: the string is assigned before the error is looked at
ReadVolumeLabel(s) ==
    LET r == ReadString(s, <<>>)
    IN  IF r.err # "nil" THEN Return([r.s EXCEPT !.lnk.VolumeLabel = r.str], r.err)
        ELSE Goto([r.s EXCEPT !.lnk.VolumeLabel = Trim(r.str)], "localBasePath")

\* ReadLocalBasePath taking the path from the file itself, past the bufio
\* reader
ReadLocalBasePath_Direct(s) ==
    LET r == FileRead(s, 1, "file")
    IN  IF r.err # "nil" THEN Return([r.s EXCEPT !.lnk.LocalBasePath = r.data], r.err)
        ELSE Return([r.s EXCEPT !.lnk.LocalBasePath = Trim(r.data)], "nil")

\* open.go 280-288
ReadLocalBasePath(s) ==
    LET r == ReadString(s, <<>>)
    IN  IF r.err # "nil" THEN Return([r.s EXCEPT !.lnk.LocalBasePath = r.str], r.err)
        ELSE Return([r.s EXCEPT !.lnk.LocalBasePath = Trim(r.str)], "nil")

\* the statement Open is at, as a function of the decoder state
Step(s) ==
    CASE s.pc = "headerSize" -> ReadHeaderSize(s)
      [] s.pc = "clsid" -> ReadCLSID(s)
      [] s.pc = "linkFlags" -> ReadLinkFlags(s)
      [] s.pc = "fileAttributes" -> ReadFileAttributes(s)
      [] s.pc = "creationTime" -> ReadCreationTime(s)
      [] s.pc = "accessTime" -> ReadAccessTime(s)
      [] s.pc = "writeTime" -> ReadWriteTime(s)
      [] s.pc = "fileSize" -> ReadFileSize(s)
      [] s.pc = "iconIndex" -> ReadIconIndex(s)
      [] s.pc = "showCommand" -> ReadShowCommand(s)
      [] s.pc = "hotKeyKey" -> ReadHotKeyKey(s)
      [] s.pc = "highByte" -> ReadHighByte(s)
      [] s.pc = "reserved1" -> ReadReserved1(s)
      [] s.pc = "reserved2" -> ReadReserved2(s)
      [] s.pc = "reserved3" -> ReadReserved3(s)
      [] s.pc = "idListSize" -> ReadIDListSize(s)
      [] s.pc = "idListBytes" -> ReadIDListBytes(s)
      [] s.pc = "linkInfoSize" -> ReadLinkInfoSize(s)
      [] s.pc = "linkInfoHeaderSize" -> ReadLinkInfoHeaderSize(s)
      [] s.pc = "linkInfoFlags" -> ReadLinkInfoFlags(s)
      [] s.pc = "volumeIDOffset" -> ReadVolumeIDOffset(s)
      [] s.pc = "localBasePathOffset" -> ReadLocalBasePathOffset(s)
      [] s.pc = "commonNetworkRelativeLinkOffset" ->
             ReadCommonNetworkRelativeLinkOffset(s)
      [] s.pc = "commonPathSuffixOffset" -> ReadCommonPathSuffixOffset(s)
      [] s.pc = "localBasePathOffsetUnicode" -> ReadLocalBasePathOffsetUnicode(s)
      [] s.pc = "commonPathSuffixOffsetUnicode" ->
             ReadCommonPathSuffixOffsetUnicode(s)
      [] s.pc = "volumeIDSize" -> ReadVolumeIDSize(s)
      [] s.pc = "driveType" -> ReadDriveType(s)
      [] s.pc = "driveSerialNumber" -> ReadDriveSerialNumber(s)
      [] s.pc = "volumeLabelOffset" -> ReadVolumeLabelOffset(s)
      [] s.pc = "volumeLabelOffsetUnicode" -> ReadVolumeLabelOffsetUnicode(s)
      [] s.pc = "volumeLabel" -> ReadVolumeLabel(s)
      [] s.pc = "localBasePath" -> ReadLocalBasePath(s)

\* Open(file) run to its return
RECURSIVE Run(_)
Run(s) == IF s.pc = "done" THEN s ELSE Run(Step(s))

Open(bytes, reader) == Run(Start(bytes, reader))

\* the package-level variables of part_001 140-149 as the program starts
Package == [validCLSID |-> validCLSID, endianness |-> "LittleEndian"]

\* PackageAfter with the CLSID read straight into the package-level array
PackageAfter_Scratch(p, s) ==
    IF s.pc = "clsid"
      THEN [p EXCEPT !.validCLSID =
                        FileRead(s, 16, "file").data \o Zeros(16 - FileRead(s, 16, "file").n)]
      ELSE p

\* the package-level variables after the statement decoder s is at: Open
\* has no assignment to validCLSID or endianness
PackageAfter(p, s) == p

\* one statement of a decoder that finds the package-level variables as p
StepWith(p, s) == IF s.pc = "clsid" THEN ReadCLSIDWith(p.validCLSID, s) ELSE Step(s)

(***************************************************************************)
(* Inputs: .lnk files written field by field, little-endian, and the       *)
(* places they are cut at.                                                 *)
(***************************************************************************)
\* the longest ID list among the inputs
MaxIDList == 2

\* the longest volume label among the inputs
MaxLabel == 2

B16(n) == <<n % 256, n \div 256>>

B32(h, l) == B16(l) \o B16(h)

B64(w) == B16(w[1]) \o B16(w[2]) \o B16(w[3]) \o B16(w[4])

\* 2017-06-01T00:00:00Z, 1970-01-01T00:00:00Z and 1601-01-01T00:00:00Z as FILETIMEs
Ticks2017 == Decimal(<<1,3,1,4,0,7,4,8,8,0,0,0,0,0,0,0,0,0>>, Zeros(4))

Ticks1970 == Decimal(<<1,1,6,4,4,4,7,3,6,0,0,0,0,0,0,0,0,0>>, Zeros(4))

BaseHeader ==
    [ headerSize |-> B32(0, 76), clsid |-> validCLSID,
      linkFlags |-> B32(0, 0), fileAttributes |-> B32(0, \h0020),
      creationTime |-> B64(Ticks2017), accessTime |-> B64(Ticks1970),
      writeTime |-> B64(Zeros(4)),
      fileSize |-> B32(1, 2), iconIndex |-> B32(\hffff, \hfffe),
      showCommand |-> B32(0, 1), key |-> <<\h41>>, high |-> <<\h05>>,
      reserved1 |-> B16(0), reserved2 |-> B32(0, 0), reserved3 |-> B32(0, 0) ]

HeaderBytes(h) ==
    h.headerSize \o h.clsid \o h.linkFlags \o h.fileAttributes \o h.creationTime
      \o h.accessTime \o h.writeTime \o h.fileSize \o h.iconIndex \o h.showCommand
      \o h.key \o h.high \o h.reserved1 \o h.reserved2 \o h.reserved3

\* a LinkTargetIDList of n bytes
IDListPart(n) == B16(n) \o [i \in 1..n |-> \ha0 + i]

\* a volume label of n bytes and the local base path "C:"
Label(n) == [i \in 1..n |-> \h4b + i]

PathC == <<\h43, \h3a>>

\* a LinkInfo with header size hs, sub-flags fl, volume label offset vlo and
\* the strings label and path
LinkInfoPart(hs, fl, vlo, label, path) ==
    B32(0, 60) \o B32(0, hs) \o B32(0, fl)
      \o B32(0, hs) \o B32(0, 45) \o B32(0, 0) \o B32(0, 48)
      \o (IF hs > 28 THEN B32(0, 51) ELSE <<>>)
      \o (IF hs > 32 THEN B32(0, 52) ELSE <<>>)
      \o (IF fl % 2 = 1
            THEN B32(0, 17) \o B32(0, 3) \o B32(\h1234, \h5678) \o B32(0, vlo)
                   \o (IF vlo > 16 THEN B32(0, 21) ELSE <<>>)
                   \o label \o <<0>> \o path \o <<0>>
            ELSE <<>>)

\* the header announcing the sections present, with the other LinkFlags bits lf
FileBytes(h, lf, idl, li, trailing) ==
    HeaderBytes([h EXCEPT !.linkFlags =
                   B32(0, lf + (IF idl # <<>> THEN 1 ELSE 0) + (IF li # <<>> THEN 2 ELSE 0))])
      \o idl \o li \o trailing

\* a reader like bytes.Reader and one like os.File
BytesReader == [chunk |-> 0, zeroEOF |-> TRUE]

FileReader == [chunk |-> 0, zeroEOF |-> FALSE]

Whole(b, rds) == [bytes |-> b, cuts |-> {Len(b)}, readers |-> rds]

AnyCut(b, rds) == [bytes |-> b, cuts |-> 0..Len(b), readers |-> rds]

IDLists == {<<>>} \cup {IDListPart(n) : n \in 0..MaxIDList}

LinkInfos ==
    { <<>>,
      LinkInfoPart(28, 0, 16, <<>>, <<>>),
      LinkInfoPart(36, 1, 20, Label(MaxLabel), PathC) }

\* well-formed files, cut everywhere
TruncatedFiles ==
    { AnyCut(FileBytes(BaseHeader, \h0080, idl, li, <<>>), {BytesReader, FileReader}) :
        idl \in IDLists, li \in LinkInfos }
    \cup { AnyCut(FileBytes(BaseHeader, 0, IDListPart(1), <<>>, <<\h55, \h00>>),
                  {BytesReader}) }

\* files whose header differs from BaseHeader in one field
HeaderSizes ==
    { B32(0, 0), B32(0, 75), B32(0, 77), B32(1, 76), <<76, 1, 0, 0>>,
      <<76, 0, 0, 128>>, <<0, 0, 0, 76>>, B32(\hffff, \hffff) }

CLSIDs ==
    { [validCLSID EXCEPT ![i] = (@ + d) % 256] : i \in 1..16, d \in {1, 128} }

FileAttributeWords ==
    { B32(0, \h0008), B32(0, \h0040), B32(0, \h0048), B32(0, \h7fb7),
      B32(\hffff, \hffb7), B32(\hffff, \hffff), B32(1, \h0800) }

HighBytes == {\h00, \h07}

\* LinkFlags words: none, all, and mixed ones in both halves
LinkFlagWords ==
    { B32(\hffff, \hffff), B32(\ha5a5, \h5a5a), B32(\h07fe, \hf7fc),
      B32(\hf801, \h0800), B32(\h0001, \h0000) }

TimeWords == { Zeros(4), <<1, 0, 0, 0>>, Ticks1970, <<\hffff, \hffff, \hffff, \hffff>> }

HeaderFiles ==
    { [bytes |-> HeaderBytes([BaseHeader EXCEPT !.headerSize = v]), cuts |-> {4, 20, 76},
       readers |-> {BytesReader}] : v \in HeaderSizes }
    \cup { [bytes |-> HeaderBytes([BaseHeader EXCEPT !.clsid = v]), cuts |-> {20, 76},
            readers |-> {BytesReader}] : v \in CLSIDs }
    \cup { [bytes |-> HeaderBytes([BaseHeader EXCEPT !.fileAttributes = v]),
            cuts |-> {28, 30, 76}, readers |-> {BytesReader}] : v \in FileAttributeWords }
    \cup { Whole(HeaderBytes([BaseHeader EXCEPT !.key = <<k>>, !.high = <<m>>]),
                 {BytesReader}) : k \in 0..255, m \in HighBytes }
    \cup { [bytes |-> HeaderBytes([BaseHeader EXCEPT !.reserved1 = B16(r1),
                                                     !.reserved2 = r2,
                                                     !.reserved3 = r3]),
            cuts |-> {68, 70, 72, 74, 76}, readers |-> {BytesReader}] :
             r1 \in {0, 1, 256}, r2 \in {B32(0, 0), B32(0, 1), B32(\h8000, 0)},
             r3 \in {B32(0, 0), B32(1, 0)} }
    \cup { Whole(HeaderBytes([BaseHeader EXCEPT !.linkFlags = v]), {BytesReader}) :
             v \in LinkFlagWords }
    \cup { Whole(HeaderBytes([BaseHeader EXCEPT !.creationTime = B64(w),
                                                !.writeTime = B64(w)]),
                 {BytesReader}) : w \in TimeWords }

\* headers that fail one check each
BadHeaders ==
    { [BaseHeader EXCEPT !.headerSize = B32(0, 77)],
      [BaseHeader EXCEPT !.clsid = [validCLSID EXCEPT ![16] = 0]],
      [BaseHeader EXCEPT !.fileAttributes = B32(0, \h0008)],
      [BaseHeader EXCEPT !.key = <<0>>],
      [BaseHeader EXCEPT !.reserved1 = B16(1)],
      [BaseHeader EXCEPT !.reserved2 = B32(0, 1)],
      [BaseHeader EXCEPT !.reserved3 = B32(1, 0)] }

\* whole files whose sections vary
SectionFiles ==
    { Whole(FileBytes(BaseHeader, 0, idl,
                      LinkInfoPart(hs, fl, vlo, Label(n), PathC), <<\h55>>),
            {BytesReader}) :
        idl \in {<<>>, IDListPart(MaxIDList)}, hs \in {27, 28, 29, 30, 32, 33, 36},
        fl \in 0..3, vlo \in {16, 17}, n \in {0, MaxLabel} }
    \cup { Whole(FileBytes(BaseHeader, \h0080, <<>>, <<>>, IDListPart(MaxIDList) \o <<\h55>>),
                  {BytesReader, FileReader}) }
    \cup { Whole(FileBytes(h, 0, IDListPart(MaxIDList),
                            LinkInfoPart(28, 0, 16, <<>>, <<>>), <<>>),
                  {BytesReader}) : h \in BadHeaders }

Files == TruncatedFiles \cup HeaderFiles \cup SectionFiles

(***************************************************************************)
(* The decoder as a state machine: st is Open's state on the input it was  *)
(* handed, orig the file that input was cut from.                          *)
(* pkg holds the package-level variables validCLSID and endianness, and    *)
(* st2 is the state of a second call of Open where two calls run           *)
(* interleaved (SpecPair); elsewhere st2 is idle.                          *)
(***************************************************************************)
Idle == [pc |-> "idle"]

InitOpen ==
    \E F \in Files : \E c \in F.cuts : \E rd \in F.readers :
        /\ st = Start(SubSeq(F.bytes, 1, c), rd)
        /\ orig = F.bytes

Init == InitOpen /\ tk = Idle /\ hk = Idle /\ st2 = Idle /\ pkg = Package

At(p) ==
    /\ st.pc = p
    /\ pkg' = PackageAfter(pkg, st)
    /\ UNCHANGED <<orig, tk, hk, st2>>

OpenHeaderSize == At("headerSize") /\ st' = ReadHeaderSize(st)
OpenCLSID == At("clsid") /\ st' = ReadCLSID(st)
OpenLinkFlags == At("linkFlags") /\ st' = ReadLinkFlags(st)
OpenFileAttributes == At("fileAttributes") /\ st' = ReadFileAttributes(st)
OpenCreationTime == At("creationTime") /\ st' = ReadCreationTime(st)
OpenAccessTime == At("accessTime") /\ st' = ReadAccessTime(st)
OpenWriteTime == At("writeTime") /\ st' = ReadWriteTime(st)
OpenFileSize == At("fileSize") /\ st' = ReadFileSize(st)
OpenIconIndex == At("iconIndex") /\ st' = ReadIconIndex(st)
OpenShowCommand == At("showCommand") /\ st' = ReadShowCommand(st)
OpenHotKeyKey == At("hotKeyKey") /\ st' = ReadHotKeyKey(st)
OpenHighByte == At("highByte") /\ st' = ReadHighByte(st)
OpenReserved1 == At("reserved1") /\ st' = ReadReserved1(st)
OpenReserved2 == At("reserved2") /\ st' = ReadReserved2(st)
OpenReserved3 == At("reserved3") /\ st' = ReadReserved3(st)
OpenIDListSize == At("idListSize") /\ st' = ReadIDListSize(st)
OpenIDListBytes == At("idListBytes") /\ st' = ReadIDListBytes(st)
OpenLinkInfoSize == At("linkInfoSize") /\ st' = ReadLinkInfoSize(st)
OpenLinkInfoHeaderSize == At("linkInfoHeaderSize") /\ st' = ReadLinkInfoHeaderSize(st)
OpenLinkInfoFlags == At("linkInfoFlags") /\ st' = ReadLinkInfoFlags(st)
OpenVolumeIDOffset == At("volumeIDOffset") /\ st' = ReadVolumeIDOffset(st)
OpenLocalBasePathOffset == At("localBasePathOffset") /\ st' = ReadLocalBasePathOffset(st)
OpenCommonNetworkRelativeLinkOffset ==
    At("commonNetworkRelativeLinkOffset") /\ st' = ReadCommonNetworkRelativeLinkOffset(st)
OpenCommonPathSuffixOffset ==
    At("commonPathSuffixOffset") /\ st' = ReadCommonPathSuffixOffset(st)
OpenLocalBasePathOffsetUnicode ==
    At("localBasePathOffsetUnicode") /\ st' = ReadLocalBasePathOffsetUnicode(st)
OpenCommonPathSuffixOffsetUnicode ==
    At("commonPathSuffixOffsetUnicode") /\ st' = ReadCommonPathSuffixOffsetUnicode(st)
OpenVolumeIDSize == At("volumeIDSize") /\ st' = ReadVolumeIDSize(st)
OpenDriveType == At("driveType") /\ st' = ReadDriveType(st)
OpenDriveSerialNumber == At("driveSerialNumber") /\ st' = ReadDriveSerialNumber(st)
OpenVolumeLabelOffset == At("volumeLabelOffset") /\ st' = ReadVolumeLabelOffset(st)
OpenVolumeLabelOffsetUnicode ==
    At("volumeLabelOffsetUnicode") /\ st' = ReadVolumeLabelOffsetUnicode(st)
OpenVolumeLabel == At("volumeLabel") /\ st' = ReadVolumeLabel(st)
OpenLocalBasePath == At("localBasePath") /\ st' = ReadLocalBasePath(st)

Next ==
    \/ OpenHeaderSize \/ OpenCLSID \/ OpenLinkFlags \/ OpenFileAttributes
    \/ OpenCreationTime \/ OpenAccessTime \/ OpenWriteTime \/ OpenFileSize
    \/ OpenIconIndex \/ OpenShowCommand \/ OpenHotKeyKey \/ OpenHighByte
    \/ OpenReserved1 \/ OpenReserved2 \/ OpenReserved3
    \/ OpenIDListSize \/ OpenIDListBytes
    \/ OpenLinkInfoSize \/ OpenLinkInfoHeaderSize \/ OpenLinkInfoFlags
    \/ OpenVolumeIDOffset \/ OpenLocalBasePathOffset
    \/ OpenCommonNetworkRelativeLinkOffset \/ OpenCommonPathSuffixOffset
    \/ OpenLocalBasePathOffsetUnicode \/ OpenCommonPathSuffixOffsetUnicode
    \/ OpenVolumeIDSize \/ OpenDriveType \/ OpenDriveSerialNumber
    \/ OpenVolumeLabelOffset \/ OpenVolumeLabelOffsetUnicode
    \/ OpenVolumeLabel \/ OpenLocalBasePath

Spec == Init /\ [][Next]_vars

\* readers that hand over at most chunk bytes by one Read (a pipe, a socket),
\* next to one that hands over all that is asked for
ShortReaders == { [chunk |-> c, zeroEOF |-> TRUE] : c \in {1, 8, 15, 16} } \cup {BytesReader}

\* whole well-formed files: a header alone, and headers followed by sections
ShortFiles ==
    { HeaderBytes(BaseHeader),
      FileBytes(BaseHeader, \h0080, IDListPart(MaxIDList), <<>>, <<>>),
      FileBytes(BaseHeader, \h0080, <<>>, LinkInfoPart(28, 1, 16, <<>>, PathC), <<>>),
      FileBytes(BaseHeader, \h0080, IDListPart(MaxIDList),
                LinkInfoPart(36, 1, 17, Label(MaxLabel), PathC), <<>>) }

\* Open over the same bytes through each reader
InitShort ==
    /\ \E b \in ShortFiles, rd \in ShortReaders : st = Start(b, rd) /\ orig = b
    /\ tk = Idle /\ hk = Idle /\ st2 = Idle /\ pkg = Package

SpecShort == InitShort /\ [][Next]_vars

\* two calls of Open on separate inputs, their statements interleaved
PairFiles ==
    { HeaderBytes(BaseHeader),
      HeaderBytes([BaseHeader EXCEPT !.clsid = [validCLSID EXCEPT ![1] = 2]]),
      FileBytes(BaseHeader, \h0080, IDListPart(MaxIDList),
                LinkInfoPart(36, 1, 17, Label(MaxLabel), PathC), <<>>),
      SubSeq(FileBytes(BaseHeader, 0, <<>>, LinkInfoPart(28, 1, 16, <<>>, PathC), <<>>),
             1, 90) }

InitPair ==
    /\ \E b1 \in PairFiles, b2 \in PairFiles :
          /\ st = Start(b1, BytesReader) /\ orig = b1
          /\ st2 = Start(b2, BytesReader)
    /\ pkg = Package /\ tk = Idle /\ hk = Idle

StepFirst ==
    /\ st.pc # "done"
    /\ st' = StepWith(pkg, st)
    /\ pkg' = PackageAfter(pkg, st)
    /\ UNCHANGED <<orig, tk, hk, st2>>

StepSecond ==
    /\ st2.pc # "done"
    /\ st2' = StepWith(pkg, st2)
    /\ pkg' = PackageAfter(pkg, st2)
    /\ UNCHANGED <<orig, tk, hk, st>>

NextPair == StepFirst \/ StepSecond

SpecPair == InitPair /\ [][NextPair]_vars

(***************************************************************************)
(* windowsNanoToTime and HotKey.String called on their own                 *)
(***************************************************************************)
\* the least and the greatest tick counts whose Unix nanoseconds fit an int64
TicksMin == Decimal(<<2,4,2,1,1,0,1,5,6,3,1,4,5,2,2,4,2>>, Zeros(4))

TicksMax == Decimal(<<2,0,8,6,7,8,4,5,6,3,6,8,5,4,7,7,5,8>>, Zeros(4))

One64 == <<1, 0, 0, 0>>

TimeInputs ==
    { <<a, b, c, d>> : a \in {\h0000, \h0001, \h8000, \hffff},
                       b \in {\h0000, \hd53e, \hffff},
                       c \in {\h0000, \hb1de, \hffff},
                       d \in {\h0000, \h019d, \h7fff, \hffff} }
    \cup { Ticks1970, Ticks2017, TicksMin, TicksMax,
           SubBorrow(Ticks1970, One64, 0), SubBorrow(TicksMin, One64, 0),
           MulAdd(Ticks1970, 1, 1), MulAdd(TicksMax, 1, 1) }

InitTime ==
    /\ \E w \in TimeInputs : tk = [pc |-> "call", windowsNano |-> w, result |-> ZeroTime]
    /\ st = Idle /\ orig = <<>> /\ hk = Idle /\ st2 = Idle /\ pkg = Package

CallWindowsNanoToTime ==
    /\ tk.pc = "call"
    /\ tk' = [tk EXCEPT !.pc = "done", !.result = windowsNanoToTime(tk.windowsNano)]
    /\ UNCHANGED <<st, orig, hk, st2, pkg>>

NextTime == CallWindowsNanoToTime

SpecTime == InitTime /\ [][NextTime]_vars

InitHotKey ==
    /\ \E k \in 0..255 : \E sh \in BOOLEAN : \E ct \in BOOLEAN : \E al \in BOOLEAN :
          hk = [pc |-> "call", str |-> <<>>,
                hotKey |-> [Key |-> k, Shift |-> sh, Ctrl |-> ct, Alt |-> al]]
    /\ st = Idle /\ orig = <<>> /\ tk = Idle /\ st2 = Idle /\ pkg = Package

CallHotKeyString ==
    /\ hk.pc = "call"
    /\ hk' = [hk EXCEPT !.pc = "done", !.str = HotKeyString(hk.hotKey)]
    /\ UNCHANGED <<st, orig, tk, st2, pkg>>

NextHotKey == CallHotKeyString

SpecHotKey == InitHotKey /\ [][NextHotKey]_vars

(***************************************************************************)
(* Properties                                                              *)
(***************************************************************************)
Done == st.pc = "done"

\* the errors io.ReadFull and Read give for an input that ends too early
ReadFailure(e) == e \in {"EOF", "ErrUnexpectedEOF"}

\* the offset just after the last byte a finished decode was given: what it
\* took from the file less what is still waiting in the bufio buffer
LogicalEnd(f) == f.pos - Len(f.buf)

\* the fields of the input by their offsets in the file
InHeaderSize(b) == SubSeq(b, 1, 4)
InCLSID(b) == SubSeq(b, 5, 20)
InKey(b) == b[65]
InReserved1(b) == SubSeq(b, 67, 68)
InReserved2(b) == SubSeq(b, 69, 72)
InReserved3(b) == SubSeq(b, 73, 76)
InIDListSize(b) == b[77] + 256 * b[78]

Size76 == <<76, 0, 0, 0>>

ShellLinkCLSID == <<1, 20, 2, 0, 0, 0, 0, 0, 192, 0, 0, 0, 0, 0, 0, 70>>

\* FileAttributes bit 3 or bit 6 in the input
InAttributesReserved(b) == And16(b[25], 8 + 64) # 0

\* the n-th read of the run has happened and got all it asked for
ReadComplete(n) == Len(st.reads) >= n /\ st.reads[n].got = st.reads[n].want

\* C1: for an input Open decodes successfully, Open on any proper prefix of
\* it that ends before its logical end returns a read failure (io.EOF or
\* io.ErrUnexpectedEOF), never success and never another error.
C1_TruncationIsReadFailure ==
    (Done /\ Len(st.input) < Len(orig)) =>
        LET full == Open(orig, st.rd)
        IN  (full.err = "nil" /\ Len(st.input) < LogicalEnd(full))
              => ReadFailure(st.err)

\* C2: with HasTargetIDList set and the length N read, IDListBytes is exactly
\* the next N input bytes when they are there, and Open returns an error when
\* fewer than N bytes remain.
C2_IDListReadExactly ==
    (Done /\ st.lnk.HasTargetIDList /\ ReadComplete(16)) =>
        LET N == InIDListSize(st.input)
        IN  IF Len(st.input) - 78 >= N
              THEN st.lnk.IDListBytes = [isNil |-> FALSE,
                                         data |-> SubSeq(st.input, 79, 78 + N)]
              ELSE st.err # "nil"

\* C3 as claimed: each reserved-field violation returns ErrReservedBitSet
\* right after the read of the field that carries it, with no later byte
\* consumed.
C3_ReservedCheckedAtTheRead ==
    Done =>
        /\ (ReadComplete(4) /\ InAttributesReserved(st.input))
              => (st.err = "ErrReservedBitSet" /\ st.pos = 28)
        /\ (ReadComplete(13) /\ InReserved1(st.input) # <<0, 0>>)
              => (st.err = "ErrReservedBitSet" /\ st.pos = 68)
        /\ (ReadComplete(14) /\ InReserved1(st.input) = <<0, 0>>
                             /\ InReserved2(st.input) # <<0, 0, 0, 0>>)
              => (st.err = "ErrReservedBitSet" /\ st.pos = 72)

\* C3 amended: FileAttributes bit 3 or 6 returns ErrReservedBitSet right after
\* the FileAttributes read (28 bytes consumed, no timestamp read); the three
\* trailing reserved fields are checked together once all three are read: a
\* non-zero one among them returns ErrReservedBitSet with 76 bytes consumed,
\* and when the input ends before the third is complete Open returns the read
\* failure whatever the earlier reserved fields hold.
C3_ReservedChecks ==
    Done =>
        /\ (ReadComplete(4) /\ InAttributesReserved(st.input))
              => (st.err = "ErrReservedBitSet" /\ st.pos = 28 /\ Len(st.reads) = 4
                  /\ st.lnk.CreationTime = ZeroTime)
        /\ (ReadComplete(15) /\ (\/ InReserved1(st.input) # <<0, 0>>
                                 \/ InReserved2(st.input) # <<0, 0, 0, 0>>
                                 \/ InReserved3(st.input) # <<0, 0, 0, 0>>))
              => (st.err = "ErrReservedBitSet" /\ st.pos = 76 /\ Len(st.reads) = 15)
        /\ (ReadComplete(12) /\ ~ReadComplete(15)) => ReadFailure(st.err)
        /\ (ReadComplete(15) /\ SubSeq(st.input, 67, 76) = Zeros(10))
              => st.err # "ErrReservedBitSet"

C3_Witness ==
    /\ Done /\ ReadComplete(15)
    /\ InReserved1(st.input) # <<0, 0>>
    /\ st.err = "ErrReservedBitSet" /\ st.pos = 76

(***************************************************************************)
(* The timestamp claims compare the code's 64-bit result with the exact    *)
(* value 100 * (ticks - 116444736000000000) computed in 96 bits, where     *)
(* nothing wraps.                                                          *)
(***************************************************************************)
Wide(x) == x \o <<0, 0>>

SignExtend(r) == r \o (IF r[4] >= 32768 THEN <<65535, 65535>> ELSE <<0, 0>>)

ExactNanos(ticks) == MulAdd(SubBorrow(Wide(ticks), Wide(Ticks1970), 0), 100, 0)

IsNegative(x) == x[Len(x)] >= 32768

FitsInt64(x) == x = SignExtend(SubSeq(x, 1, 4))

\* C4: every tick count below 116444736000000000 converts to a negative
\* nanosecond count equal to 100 * (ticks - 116444736000000000).
C4_Before1970IsNegative ==
    (tk.pc = "done" /\ IsNegative(SubBorrow(Wide(tk.windowsNano), Wide(Ticks1970), 0))) =>
        /\ IsNegative(tk.result)
        /\ SignExtend(tk.result) = ExactNanos(tk.windowsNano)

\* C5: whenever 100 * (ticks - 116444736000000000) fits a signed 64-bit
\* integer, windowsNanoToTime returns exactly that many nanoseconds; tick
\* value 116444736000000000 gives 0, the Unix epoch.
C5_ExactWhenItFits ==
    tk.pc = "done" =>
        /\ FitsInt64(ExactNanos(tk.windowsNano))
              => SignExtend(tk.result) = ExactNanos(tk.windowsNano)
        /\ tk.windowsNano = Ticks1970 => tk.result = <<0, 0, 0, 0>>

C5_Witness ==
    /\ tk.pc = "done"
    /\ tk.windowsNano = SubBorrow(Ticks1970, One64, 0)
    /\ tk.result = <<65536 - 100, 65535, 65535, 65535>>

(***************************************************************************)
(* The hot key claims                                                      *)
(***************************************************************************)
ModifierPrefix(h) ==
    (IF h.Shift THEN <<83, 104, 105, 102, 116, 43>> ELSE <<>>)
      \o (IF h.Ctrl THEN <<67, 116, 114, 108, 43>> ELSE <<>>)
      \o (IF h.Alt THEN <<65, 108, 116, 43>> ELSE <<>>)

AcceptedKeys == (\h30..\h39) \cup (\h41..\h5a) \cup (\h70..\h87) \cup {\h90, \h91}

\* the part of the rendering after the modifier prefixes
KeyToken(h, str) == SubSeq(str, Len(ModifierPrefix(h)) + 1, Len(str))

HasPrefix(str, p) == Len(str) >= Len(p) /\ SubSeq(str, 1, Len(p)) = p

\* the number a string of decimal digits writes, -1 when it is not one
RECURSIVE DigitsValue(_)
DigitsValue(d) ==
    IF d = <<>> \/ \E i \in 1..Len(d) : d[i] < 48 \/ d[i] > 57 THEN -1
    ELSE IF Len(d) = 1 THEN d[1] - 48
    ELSE IF d[1] = 48 THEN -1
    ELSE 10 * DigitsValue(SubSeq(d, 1, Len(d) - 1)) + (d[Len(d)] - 48)

\* C6 as claimed: 0x90 renders as "NumLock" and 0x91 as "ScrollLock".
C6_NumLockScrollLock ==
    hk.pc = "done" =>
        /\ hk.hotKey.Key = \h90 =>
              hk.str = ModifierPrefix(hk.hotKey) \o <<78, 117, 109, 76, 111, 99, 107>>
        /\ hk.hotKey.Key = \h91 =>
              hk.str = ModifierPrefix(hk.hotKey)
                         \o <<83, 99, 114, 111, 108, 108, 76, 111, 99, 107>>

\* C6 amended: after the modifier prefixes, 0x90 renders as the token "NumLk"
\* and 0x91 as the token "ScrLK".
C6_NumLkScrLK ==
    hk.pc = "done" =>
        /\ hk.hotKey.Key = \h90 =>
              hk.str = ModifierPrefix(hk.hotKey) \o <<78, 117, 109, 76, 107>>
        /\ hk.hotKey.Key = \h91 =>
              hk.str = ModifierPrefix(hk.hotKey) \o <<83, 99, 114, 76, 75>>

C6_Witness ==
    /\ hk.pc = "done" /\ hk.hotKey.Key = \h91 /\ hk.hotKey.Alt /\ ~hk.hotKey.Shift
    /\ ~hk.hotKey.Ctrl
    /\ hk.str = <<65, 108, 116, 43, 83, 99, 114, 76, 75>>

\* a well-formed, complete header but for its key code
ValidButKey(b) ==
    /\ Len(b) >= 76
    /\ InHeaderSize(b) = Size76 /\ InCLSID(b) = ShellLinkCLSID
    /\ ~InAttributesReserved(b)
    /\ SubSeq(b, 67, 76) = Zeros(10)

\* C7: in an otherwise valid and complete header, Open returns
\* ErrInvalidHotKey exactly when the key code is outside {0x30-0x39,
\* 0x41-0x5A, 0x70-0x87, 0x90, 0x91}; a key code inside passes the check and
\* the modifier byte is read.
C7_HotKeyAcceptance ==
    (Done /\ ValidButKey(st.input)) =>
        /\ st.err = "ErrInvalidHotKey" <=> InKey(st.input) \notin AcceptedKeys
        /\ InKey(st.input) \in AcceptedKeys =>
              (ReadComplete(12) /\ st.lnk.HotKey.Key = InKey(st.input))

C7_Witness ==
    /\ Done /\ ValidButKey(st.input) /\ InKey(st.input) = \h29
    /\ st.err = "ErrInvalidHotKey" /\ st.pos = 65

\* C8: for an accepted key code the rendering is "Shift+", "Ctrl+", "Alt+" in
\* that order, each present exactly when its boolean is set, then the key
\* token: "F" and the decimal of (code - 0x6F) for 0x70..0x87, the single
\* literal character for 0x30-0x39 and 0x41-0x5A.
C8_Rendering ==
    (hk.pc = "done" /\ hk.hotKey.Key \in AcceptedKeys) =>
        LET k == hk.hotKey.Key
            tok == KeyToken(hk.hotKey, hk.str)
        IN  /\ HasPrefix(hk.str, ModifierPrefix(hk.hotKey))
            /\ tok # <<>>
            /\ \A i \in 1..Len(tok) : tok[i] # 43
            /\ (k >= \h70 /\ k <= \h87) =>
                  (tok[1] = 70 /\ DigitsValue(Tail(tok)) = k - \h6f)
            /\ (k \in (\h30..\h39) \cup (\h41..\h5a)) => tok = <<k>>

C8_Witness ==
    /\ hk.pc = "done" /\ hk.hotKey.Key = \h41
    /\ hk.hotKey.Shift /\ ~hk.hotKey.Ctrl /\ ~hk.hotKey.Alt
    /\ hk.str = <<83, 104, 105, 102, 116, 43, 65>>

\* C9: an input whose first four bytes are not 76 little-endian returns
\* ErrInvalidHeaderSize after that one read, whatever follows and when
\* nothing follows.
C9_InvalidHeaderSize ==
    (Done /\ Len(st.input) >= 4 /\ InHeaderSize(st.input) # Size76) =>
        /\ st.err = "ErrInvalidHeaderSize"
        /\ st.reads = <<[via |-> "file", at |-> 0, want |-> 4, got |-> 4,
                        step |-> "headerSize"]>>
        /\ st.pos = 4 /\ st.lnk = ZeroLNK

C9_Witness ==
    /\ Done /\ Len(st.input) = 4 /\ InHeaderSize(st.input) = <<76, 0, 1, 0>>
    /\ st.err = "ErrInvalidHeaderSize"

\* C10: header size 76 followed by 16 bytes that differ from the shell link
\* CLSID in at least one byte returns ErrInvalidCLSID, with LinkFlags not read
\* and no named flag set.
C10_InvalidCLSID ==
    (Done /\ Len(st.input) >= 20 /\ InHeaderSize(st.input) = Size76
          /\ InCLSID(st.input) # ShellLinkCLSID) =>
        /\ st.err = "ErrInvalidCLSID"
        /\ Len(st.reads) = 2 /\ st.pos = 20
        /\ st.lnk = ZeroLNK

C10_Witness ==
    /\ Done /\ Len(st.input) > 20
    /\ SubSeq(st.input, 1, 19) = Size76 \o SubSeq(ShellLinkCLSID, 1, 15)
    /\ st.input[20] = \h47
    /\ st.err = "ErrInvalidCLSID"

\* the flags Open names in the record, by the word they are decoded from
LinkFlagNames ==
    { "HasTargetIDList", "HasLinkInfo", "HasName", "HasRelativePath", "HasWorkingDir",
      "HasArguments", "HasIconLocation", "IsUnicode", "ForceNoLinkInfo", "HasExpString",
      "RunInSeperateProcess", "HasDarwinID", "RunAsUser", "HasExpIcon", "NoPidlAlias",
      "RunWithShimLayer", "ForceNoLinkTrack", "EnableTargetMetadata",
      "DisableLinkPathTracking", "DisableKnownFolderTracking", "DisableKnownFolderAlias",
      "AllowLinkToLink", "UnaliasOnSave", "PreferEnvironmentPath",
      "KeepLocalIDListForUNCTarget" }

FileAttributeNames ==
    { "ReadOnly", "Hidden", "System", "Directory", "Archive", "Normal", "Temporary",
      "SparseFile", "ReparsePoint", "Compressed", "Offline", "NotContentIndexed",
      "Encrypted" }

NamedBits == (0..10) \cup (12..15) \cup (17..26)

\* the flag each bit of the LinkFlags word stands for, bits 0 to 26
FlagOfBit ==
    [k \in 0..26 |->
       << "HasTargetIDList", "HasLinkInfo", "HasName", "HasRelativePath", "HasWorkingDir",
          "HasArguments", "HasIconLocation", "IsUnicode", "ForceNoLinkInfo",
          "HasExpString", "RunInSeperateProcess", "Unused1", "HasDarwinID", "RunAsUser",
          "HasExpIcon", "NoPidlAlias", "Unused2", "RunWithShimLayer", "ForceNoLinkTrack",
          "EnableTargetMetadata", "DisableLinkPathTracking",
          "DisableKnownFolderTracking", "DisableKnownFolderAlias", "AllowLinkToLink",
          "UnaliasOnSave", "PreferEnvironmentPath",
          "KeepLocalIDListForUNCTarget" >>[k + 1]]

\* the input b with bit k of its LinkFlags word (offsets 20..23) flipped
FlipLinkFlagsBit(b, k) ==
    LET i == 21 + (k \div 8)
        m == 2 ^ (k % 8)
    IN  [b EXCEPT ![i] = IF And16(@, m) # 0 THEN @ - m ELSE @ + m]

\* the named flags on which two records differ
Toggled(x, y) == { f \in LinkFlagNames \cup FileAttributeNames : x[f] # y[f] }

\* C11: for a LinkFlags word and a bit k among 0..10, 12..15, 17..26,
\* flipping bit k toggles exactly one named flag of the record, a different
\* one for each k; flipping bit 11, 16 or 27..31 toggles no named flag and
\* leaves the outcome of Open as it was.
C11_FlagsOneToOne ==
    (Done /\ st.input = orig /\ ReadComplete(4)) =>
        /\ Cardinality({FlagOfBit[k] : k \in NamedBits}) = Cardinality(NamedBits)
        /\ \A k \in 0..31 :
             LET flip == Open(FlipLinkFlagsBit(orig, k), st.rd)
             IN  IF k \in NamedBits
                   THEN Toggled(st.lnk, flip.lnk) = {FlagOfBit[k]}
                   ELSE /\ flip.err = st.err
                        /\ flip.lnk = st.lnk
                        /\ flip.pos = st.pos

\* a whole header decoded whose LinkFlags word has all the unused bits set and
\* none of the named ones
C11_Witness ==
    /\ Done /\ st.input = orig /\ st.err = "nil"
    /\ SubSeq(orig, 21, 24) = B32(\hf801, \h0800)
    /\ \A f \in LinkFlagNames : ~st.lnk[f]

\* the reads the statement p of Open has made, as indices of the read log
ReadsOf(p) == { i \in 1..Len(st.reads) : st.reads[i].step = p }

\* statement p has made one read, which got all it asked for
WasRead(p) == \E i \in ReadsOf(p) : st.reads[i].got = st.reads[i].want

\* the offset at which statement p read
ReadAt(p) == st.reads[CHOOSE i \in ReadsOf(p) : TRUE].at

\* the LinkInfoHeaderSize field of the input, 4 bytes after the LinkInfo start
InLinkInfoHeaderSize ==
    LET at == ReadAt("linkInfoHeaderSize")
    IN  LittleEndianUint32(SubSeq(st.input, at + 1, at + 4))

\* C12: with HasLinkInfo set and the four mandatory offsets read, the
\* optional Unicode offsets read next are fixed by LinkInfoHeaderSize alone:
\* none when it is at most 28, LocalBasePathOffsetUnicode only when it is 29
\* to 32 (CommonPathSuffixOffsetUnicode stays 0 and no read is made for it),
\* both when it is above 32 and the input holds them.
C12_UnicodeOffsetsByHeaderSize ==
    (Done /\ st.lnk.HasLinkInfo /\ WasRead("commonPathSuffixOffset")) =>
        LET hs == InLinkInfoHeaderSize
            first == ReadsOf("localBasePathOffsetUnicode")
            second == ReadsOf("commonPathSuffixOffsetUnicode")
            end == ReadAt("commonPathSuffixOffset") + 4
        IN  /\ ~Gt32(hs, 28) =>
                 /\ first = {} /\ second = {}
                 /\ st.lnk.LocalBasePathOffsetUnicode = Zero32
                 /\ st.lnk.CommonPathSuffixOffsetUnicode = Zero32
            /\ Gt32(hs, 28) =>
                 /\ Cardinality(first) = 1
                 /\ ReadAt("localBasePathOffsetUnicode") = end
                 /\ \A i \in first : st.reads[i].want = 4
            /\ (Gt32(hs, 28) /\ ~Gt32(hs, 32)) =>
                 /\ second = {}
                 /\ st.lnk.CommonPathSuffixOffsetUnicode = Zero32
                 /\ \A i \in 1..Len(st.reads) :
                      (st.reads[i].at >= end + 4) =>
                          st.reads[i].step \in {"volumeIDSize", "driveType",
                              "driveSerialNumber", "volumeLabelOffset",
                              "volumeLabelOffsetUnicode", "volumeLabel", "localBasePath"}
            /\ (Gt32(hs, 32) /\ WasRead("localBasePathOffsetUnicode")) =>
                 /\ Cardinality(second) = 1
                 /\ ReadAt("commonPathSuffixOffsetUnicode") = end + 4
                 /\ \A i \in second : st.reads[i].want = 4

\* a decode of a LinkInfo whose header size is 30: one Unicode offset read
C12_Witness ==
    /\ Done /\ st.err = "nil" /\ st.lnk.HasLinkInfo
    /\ st.lnk.LinkInfoHeaderSize = U32(0, 30)
    /\ st.lnk.LocalBasePathOffsetUnicode = U32(0, 51)
    /\ st.lnk.CommonPathSuffixOffsetUnicode = Zero32
    /\ ReadsOf("commonPathSuffixOffsetUnicode") = {}
    /\ st.lnk.VolumeIDAndLocalBasePath /\ st.lnk.VolumeIDSize = U32(0, 17)

\* the 15 header reads are done and the checks of open.go 30-178 have passed
HeaderPassed == ReadComplete(15) /\ (Len(st.reads) > 15 \/ st.err = "nil")

\* bits 0 and 1 of the LinkFlags word of the input
InHasTargetIDList == And16(st.input[21], 1) # 0

InHasLinkInfo == And16(st.input[21], 2) # 0

\* C13: with HasTargetIDList clear, no ID-list length and no ID-list byte is
\* read and IDListBytes stays nil; the first read after the 76 header bytes
\* is at offset 76 and is the first LinkInfo field when HasLinkInfo is set,
\* and otherwise Open returns with nothing more read.
C13_NoIDListWhenFlagClear ==
    (HeaderPassed /\ ~InHasTargetIDList) =>
        /\ ReadsOf("idListSize") = {} /\ ReadsOf("idListBytes") = {}
        /\ st.lnk.IDListBytes = NilBytes
        /\ IF InHasLinkInfo
             THEN /\ st.pc # "linkInfoSize" => Len(st.reads) >= 16
                  /\ Len(st.reads) >= 16 =>
                       /\ st.reads[16].at = 76
                       /\ st.reads[16].step = "linkInfoSize"
             ELSE /\ Done /\ st.err = "nil"
                  /\ Len(st.reads) = 15 /\ st.pos = 76 /\ st.buf = <<>>

\* a file without an ID list whose LinkInfo was decoded from offset 76
C13_Witness ==
    /\ Done /\ st.err = "nil" /\ HeaderPassed
    /\ ~InHasTargetIDList /\ InHasLinkInfo
    /\ st.lnk.IDListBytes = NilBytes
    /\ ReadAt("linkInfoSize") = 76
    /\ st.lnk.LinkInfoSize = U32(0, 60)

\* the statements of open.go 246-285
VolumeSteps ==
    { "volumeIDSize", "driveType", "driveSerialNumber", "volumeLabelOffset",
      "volumeLabelOffsetUnicode", "volumeLabel", "localBasePath" }

\* the LinkInfo sub-flags word of the input, 8 bytes after the LinkInfo start
InLinkInfoFlags ==
    LET at == ReadAt("linkInfoFlags")
    IN  LittleEndianUint32(SubSeq(st.input, at + 1, at + 4))

\* the offset just after the LinkInfo offset fields its header size announces
OffsetsEnd ==
    ReadAt("linkInfoSize") + 28
      + (IF Gt32(InLinkInfoHeaderSize, 28) THEN 4 ELSE 0)
      + (IF Gt32(InLinkInfoHeaderSize, 32) THEN 4 ELSE 0)

\* C14: with HasLinkInfo set and bit 0 of the LinkInfo sub-flags clear, no
\* VolumeID field and no string is read: VolumeLabel and LocalBasePath stay
\* empty, the VolumeID fields stay 0, and no byte after the LinkInfo offset
\* fields is consumed, through the file or through the bufio reader.
C14_NoVolumeIDWhenBitClear ==
    (st.lnk.HasLinkInfo /\ WasRead("linkInfoFlags")
        /\ ~MaskSet(InLinkInfoFlags, U32(0, 1))) =>
        /\ \A p \in VolumeSteps : ReadsOf(p) = {}
        /\ st.pc \notin VolumeSteps
        /\ st.lnk.VolumeLabel = <<>> /\ st.lnk.LocalBasePath = <<>>
        /\ st.lnk.VolumeIDSize = Zero32 /\ st.lnk.DriveType = Zero32
        /\ st.lnk.DriveSerialNumber = Zero32
        /\ st.lnk.VolumeLabelOffset = Zero32
        /\ st.lnk.VolumeLabelOffsetUnicode = Zero32
        /\ st.buf = <<>>
        /\ st.pos <= OffsetsEnd
        /\ (Done /\ st.err = "nil") => st.pos = OffsetsEnd

\* a LinkInfo with sub-flags 2 and header size 36 decoded to its last offset
\* field, the byte after it left unread
C14_Witness ==
    /\ Done /\ st.err = "nil" /\ st.lnk.HasLinkInfo
    /\ st.lnk.CommonNetworkRelativeLinkAndPathSuffix
    /\ ~st.lnk.VolumeIDAndLocalBasePath
    /\ st.lnk.CommonPathSuffixOffsetUnicode = U32(0, 52)
    /\ st.pos = OffsetsEnd /\ st.pos + 1 = Len(st.input)
    /\ st.lnk.LocalBasePath = <<>>

\* C15: Open over given bytes returns the same record and the same outcome
\* through every reader that delivers those bytes, one that hands over fewer
\* bytes than asked for by a single Read included: the result is that of Open
\* over the same bytes through a reader that hands over all that is asked for.
C15_SameResultThroughAnyReader ==
    Done =>
        LET full == Open(st.input, BytesReader)
        IN  st.lnk = full.lnk /\ st.err = full.err

\* the sizes of the header fields in the order of open.go 30-178, and the
\* statements that read them
HeaderFieldSizes == <<4, 16, 4, 4, 8, 8, 8, 4, 4, 4, 1, 1, 2, 4, 4>>

HeaderSteps ==
    << "headerSize", "clsid", "linkFlags", "fileAttributes", "creationTime",
       "accessTime", "writeTime", "fileSize", "iconIndex", "showCommand",
       "hotKeyKey", "highByte", "reserved1", "reserved2", "reserved3" >>

RECURSIVE SumTo(_, _)
SumTo(sizes, n) == IF n = 0 THEN 0 ELSE SumTo(sizes, n - 1) + sizes[n]

\* C16: once the header stage has completed without error, the first 15
\* reads are those of the header fields in order, of 4, 16, 4, 4, 8, 8, 8, 4,
\* 4, 4, 1, 1, 2, 4 and 4 bytes, each complete and each starting where the one
\* before it ended, from offset 0 to offset 76: no byte skipped or read twice.
C16_HeaderIs76BytesInOrder ==
    HeaderPassed =>
        /\ \A i \in 1..15 :
             /\ st.reads[i].step = HeaderSteps[i]
             /\ st.reads[i].want = HeaderFieldSizes[i]
             /\ st.reads[i].got = HeaderFieldSizes[i]
             /\ st.reads[i].at = SumTo(HeaderFieldSizes, i - 1)
        /\ SumTo(HeaderFieldSizes, 15) = 76
        /\ \A i \in 16..Len(st.reads) : st.reads[i].at >= 76
        /\ Len(st.reads) = 15 => st.pos = 76

\* the header stage has just completed on an input that goes on
C16_Witness ==
    /\ HeaderPassed /\ st.pc = "idListSize" /\ Len(st.reads) = 15
    /\ st.pos = 76 /\ Len(st.input) > 76

\* the statements of Open in the order of the source
StepOrder ==
    HeaderSteps \o
    << "idListSize", "idListBytes", "linkInfoSize", "linkInfoHeaderSize",
       "linkInfoFlags", "volumeIDOffset", "localBasePathOffset",
       "commonNetworkRelativeLinkOffset", "commonPathSuffixOffset",
       "localBasePathOffsetUnicode", "commonPathSuffixOffsetUnicode",
       "volumeIDSize", "driveType", "driveSerialNumber", "volumeLabelOffset",
       "volumeLabelOffsetUnicode", "volumeLabel", "localBasePath" >>

StepIndex(p) == CHOOSE i \in 1..Len(StepOrder) : StepOrder[i] = p

\* the fields of the record each statement assigns, as paths into the record
FieldsSetBy(p) ==
    CASE p = "linkFlags" -> { <<f>> : f \in LinkFlagNames }
      [] p = "fileAttributes" -> { <<f>> : f \in FileAttributeNames }
      [] p = "creationTime" -> { <<"CreationTime">> }
      [] p = "accessTime" -> { <<"AccessTime">> }
      [] p = "writeTime" -> { <<"WriteTime">> }
      [] p = "fileSize" -> { <<"FileSize">> }
      [] p = "iconIndex" -> { <<"IconIndex">> }
      [] p = "showCommand" -> { <<"ShowCommand">> }
      [] p = "hotKeyKey" -> { <<"HotKey", "Key">> }
      [] p = "highByte" -> { <<"HotKey", "Shift">>, <<"HotKey", "Ctrl">>, <<"HotKey", "Alt">> }
      [] p \in {"idListSize", "idListBytes"} -> { <<"IDListBytes">> }
      [] p = "linkInfoSize" -> { <<"LinkInfoSize">> }
      [] p = "linkInfoHeaderSize" -> { <<"LinkInfoHeaderSize">> }
      [] p = "linkInfoFlags" ->
             { <<"VolumeIDAndLocalBasePath">>, <<"CommonNetworkRelativeLinkAndPathSuffix">> }
      [] p = "volumeIDOffset" -> { <<"VolumeIDOffset">> }
      [] p = "localBasePathOffset" -> { <<"LocalBasePathOffset">> }
      [] p = "commonNetworkRelativeLinkOffset" -> { <<"CommonNetworkRelativeLinkOffset">> }
      [] p = "commonPathSuffixOffset" -> { <<"CommonPathSuffixOffset">> }
      [] p = "localBasePathOffsetUnicode" -> { <<"LocalBasePathOffsetUnicode">> }
      [] p = "commonPathSuffixOffsetUnicode" -> { <<"CommonPathSuffixOffsetUnicode">> }
      [] p = "volumeIDSize" -> { <<"VolumeIDSize">> }
      [] p = "driveType" -> { <<"DriveType">> }
      [] p = "driveSerialNumber" -> { <<"DriveSerialNumber">> }
      [] p = "volumeLabelOffset" -> { <<"VolumeLabelOffset">> }
      [] p = "volumeLabelOffsetUnicode" -> { <<"VolumeLabelOffsetUnicode">> }
      [] p = "volumeLabel" -> { <<"VolumeLabel">> }
      [] p = "localBasePath" -> { <<"LocalBasePath">> }
      [] OTHER -> {}

FieldAt(lnk, path) ==
    IF Len(path) = 1 THEN lnk[path[1]] ELSE lnk[path[1]][path[2]]

\* every field of the record is assigned by some statement
AllFieldsCovered ==
    \A f \in DOMAIN ZeroLNK :
        \E i \in 1..Len(StepOrder) :
            \E path \in FieldsSetBy(StepOrder[i]) : path[1] = f

\* one step of Open at statement p: the fields of the other statements keep
\* their values, and when the step returns an error the fields of the
\* statements after p are still zero and the cursor stands just after the
\* last read of p
StepStopsAtFailure ==
    LET p == st.pc
        own == FieldsSetBy(p)
        last == st'.reads[Len(st'.reads)]
    IN  /\ p # "done"
        /\ AllFieldsCovered
        /\ st'.input = st.input
        /\ \A i \in 1..Len(StepOrder) :
             \A path \in FieldsSetBy(StepOrder[i]) \ own :
                 FieldAt(st'.lnk, path) = FieldAt(st.lnk, path)
        /\ (st'.pc = "done" /\ st'.err # "nil") =>
             /\ \A i \in (StepIndex(p) + 1)..Len(StepOrder) :
                  \A path \in FieldsSetBy(StepOrder[i]) \ own :
                      FieldAt(st'.lnk, path) = FieldAt(ZeroLNK, path)
             /\ Len(st'.reads) > Len(st.reads)
             /\ last.step = p
             /\ st'.pos = last.at + last.got

\* C17: when Open returns an error the decode stops at the failing
\* statement: the record returned holds every field decoded before it with
\* its value, every field a later read would set is still zero, no byte is
\* consumed after the failing read or check, and no statement runs after the
\* return.
C17_StopsAtFailingStep == [][StepStopsAtFailure]_vars

\* a decode that failed inside the LinkInfo header: the fields before the
\* failing read are set, the ones after it are zero
C17_Witness ==
    /\ Done /\ st.err = "ErrUnexpectedEOF"
    /\ st.reads[Len(st.reads)].step = "linkInfoHeaderSize"
    /\ st.lnk.HasLinkInfo /\ st.lnk.Archive /\ st.lnk.HotKey.Key = \h41
    /\ st.lnk.FileSize = U32(1, 2)
    /\ st.lnk.LinkInfoSize = U32(0, 60)
    /\ st.lnk.LinkInfoHeaderSize = Zero32 /\ st.lnk.VolumeIDOffset = Zero32

\* the statements that read the Target ID List and those that read LinkInfo
IDListSteps == {"idListSize", "idListBytes"}

LinkInfoSteps ==
    { StepOrder[i] : i \in 18..Len(StepOrder) }

ReadsOfAny(ps) == { i \in 1..Len(st.reads) : st.reads[i].step \in ps }

\* the five header checks of open.go 30-178, on the bytes of the input
InHeaderChecksPass ==
    /\ Len(st.input) >= 76
    /\ InHeaderSize(st.input) = Size76
    /\ InCLSID(st.input) = ShellLinkCLSID
    /\ ~InAttributesReserved(st.input)
    /\ InKey(st.input) \in AcceptedKeys
    /\ InReserved1(st.input) = <<0, 0>>
    /\ InReserved2(st.input) = <<0, 0, 0, 0>>
    /\ InReserved3(st.input) = <<0, 0, 0, 0>>

\* C18: a read of the Target ID List or of LinkInfo happens only after the
\* 15 header reads have taken all 76 header bytes and the header-size, CLSID,
\* FileAttributes-reserved, hotkey and trailing-reserved checks have passed;
\* and with both sections present the ID-list length and bytes are read
\* before the first LinkInfo byte.
C18_SectionsAfterHeaderInOrder ==
    /\ \A i \in ReadsOfAny(IDListSteps \cup LinkInfoSteps) :
         /\ i > 15
         /\ \A j \in 1..15 : st.reads[j].step = HeaderSteps[j]
                               /\ st.reads[j].got = HeaderFieldSizes[j]
         /\ st.reads[i].at >= 76
         /\ InHeaderChecksPass
    /\ (st.pc \in IDListSteps \cup LinkInfoSteps) => (HeaderPassed /\ InHeaderChecksPass)
    /\ \A i \in ReadsOfAny(LinkInfoSteps) :
         /\ \A j \in ReadsOfAny(IDListSteps) :
              j < i /\ st.reads[j].at + st.reads[j].got <= st.reads[i].at
         /\ InHasTargetIDList =>
              (ReadsOf("idListSize") # {} /\ ReadsOf("idListBytes") # {})

\* both sections decoded, the ID list from offset 76 and LinkInfo after it
C18_Witness ==
    /\ Done /\ st.err = "nil"
    /\ st.lnk.HasTargetIDList /\ st.lnk.HasLinkInfo
    /\ ReadAt("idListSize") = 76 /\ ReadAt("idListBytes") = 78
    /\ ReadAt("linkInfoSize") = 78 + MaxIDList
    /\ st.lnk.IDListBytes.data = SubSeq(st.input, 79, 78 + MaxIDList)

\* the 4-byte little-endian field of the input at offset at
InField32(at) == LittleEndianUint32(SubSeq(st.input, at + 1, at + 4))

\* the index of the first NUL of b after index from, 0 when there is none
FirstNulAfter(b, from) ==
    IF \E i \in (from + 1)..Len(b) : b[i] = 0
      THEN CHOOSE i \in (from + 1)..Len(b) :
               b[i] = 0 /\ \A j \in (from + 1)..(i - 1) : b[j] # 0
      ELSE 0

\* C19: with bit 0 of the LinkInfo sub-flags set and the LinkInfo offsets
\* read, Open reads VolumeIDSize, DriveType, DriveSerialNumber and
\* VolumeLabelOffset, 4 bytes each and one after the other, then
\* VolumeLabelOffsetUnicode exactly when VolumeLabelOffset is above 16, then
\* the NUL-terminated strings VolumeLabel and LocalBasePath, each starting
\* right after the item before it; a stored string is the bytes up to but not
\* including its NUL and holds no NUL; a terminator missing before the end of
\* the input is an error.
C19_VolumeIDAndStrings ==
    (Done /\ st.lnk.HasLinkInfo /\ WasRead("linkInfoFlags")
        /\ MaskSet(InLinkInfoFlags, U32(0, 1)) /\ OffsetsEnd + 16 <= Len(st.input)) =>
        LET v == OffsetsEnd
            wide == Gt32(InField32(v + 12), 16)
            s0 == v + 16 + (IF wide THEN 4 ELSE 0)
            n1 == FirstNulAfter(st.input, s0)
            n2 == FirstNulAfter(st.input, n1)
        IN  /\ ReadAt("volumeIDSize") = v /\ ReadAt("driveType") = v + 4
            /\ ReadAt("driveSerialNumber") = v + 8 /\ ReadAt("volumeLabelOffset") = v + 12
            /\ \A p \in {"volumeIDSize", "driveType", "driveSerialNumber",
                         "volumeLabelOffset", "volumeLabelOffsetUnicode"} :
                 \A i \in ReadsOf(p) : st.reads[i].want = 4
            /\ st.lnk.VolumeIDSize = InField32(v) /\ st.lnk.DriveType = InField32(v + 4)
            /\ st.lnk.DriveSerialNumber = InField32(v + 8)
            /\ st.lnk.VolumeLabelOffset = InField32(v + 12)
            /\ (ReadsOf("volumeLabelOffsetUnicode") # {}) <=> wide
            /\ wide => ReadAt("volumeLabelOffsetUnicode") = v + 16
            /\ (wide /\ s0 <= Len(st.input)) => st.lnk.VolumeLabelOffsetUnicode = InField32(v + 16)
            /\ ~wide => st.lnk.VolumeLabelOffsetUnicode = Zero32
            /\ s0 <= Len(st.input) =>
                 /\ ReadAt("volumeLabel") = s0
                 /\ IF n1 = 0 THEN st.err # "nil"
                    ELSE /\ st.lnk.VolumeLabel = SubSeq(st.input, s0 + 1, n1 - 1)
                         /\ IF n2 = 0 THEN st.err # "nil"
                            ELSE /\ st.err = "nil"
                                 /\ st.lnk.LocalBasePath = SubSeq(st.input, n1 + 1, n2 - 1)
                 /\ st.err = "nil" =>
                      /\ \A i \in 1..Len(st.lnk.VolumeLabel) : st.lnk.VolumeLabel[i] # 0
                      /\ \A i \in 1..Len(st.lnk.LocalBasePath) : st.lnk.LocalBasePath[i] # 0

\* a VolumeID with a Unicode label offset and both strings decoded
C19_Witness ==
    /\ Done /\ st.err = "nil" /\ st.lnk.VolumeIDAndLocalBasePath
    /\ st.lnk.VolumeLabelOffset = U32(0, 17)
    /\ st.lnk.VolumeLabelOffsetUnicode = U32(0, 21)
    /\ st.lnk.DriveSerialNumber = U32(\h1234, \h5678)
    /\ st.lnk.VolumeLabel = Label(MaxLabel) /\ st.lnk.LocalBasePath = PathC

\* C20: two calls of Open on separate inputs share no mutable state: in
\* every state reached by any interleaving of their statements the
\* package-level validCLSID and endianness hold their initial values, and
\* each call that has returned has the record and the outcome of Open run
\* alone on its input.
C20_InterleavingIsIndependent ==
    /\ pkg.validCLSID = ShellLinkCLSID
    /\ pkg.endianness = "LittleEndian"
    /\ st.pc = "done" =>
         LET alone == Open(st.input, st.rd)
         IN  st.lnk = alone.lnk /\ st.err = alone.err
    /\ st2.pc = "done" =>
         LET alone == Open(st2.input, st2.rd)
         IN  st2.lnk = alone.lnk /\ st2.err = alone.err

\* the second call has returned ErrInvalidCLSID while the first, on a valid
\* file, is still between its CLSID check and its return
C20_Witness ==
    /\ st2.pc = "done" /\ st2.err = "ErrInvalidCLSID"
    /\ st.pc = "volumeLabel" /\ st.err = "nil"
    /\ Len(st.lnk.IDListBytes.data) = MaxIDList

\* LinkInfoSize and the four mandatory offsets: their names in the record
\* and their places in the LinkInfo header
UnusedFieldNames ==
    { "LinkInfoSize", "VolumeIDOffset", "LocalBasePathOffset",
      "CommonNetworkRelativeLinkOffset", "CommonPathSuffixOffset" }

UnusedFieldPlaces == {0, 12, 16, 20, 24}

\* other values for such a field
OtherWords == { <<0, 0, 0, 0>>, <<255, 255, 255, 255>>, <<1, 0, 0, 128>> }

\* the input b with the 4 bytes at offset at replaced by w
SetField32(b, at, w) ==
    [i \in 1..Len(b) |-> IF i > at /\ i <= at + 4 THEN w[i - at] ELSE b[i]]

\* the input b with all five fields of the LinkInfo starting at li set to w
RECURSIVE SetAll(_, _, _, _)
SetAll(b, li, places, w) ==
    IF places = {} THEN b
    ELSE LET o == CHOOSE o \in places : TRUE
         IN  SetAll(SetField32(b, li + o, w), li, places \ {o}, w)

\* the record without the five fields
OtherFields(lnk) == [f \in (DOMAIN lnk) \ UnusedFieldNames |-> lnk[f]]

\* two runs with the same outcome, the same bytes taken from the reader and
\* the same record but for the five fields
SameButUnused(x, y) ==
    /\ x.err = y.err
    /\ x.pos = y.pos /\ Len(x.buf) = Len(y.buf)
    /\ OtherFields(x.lnk) = OtherFields(y.lnk)

\* C21: LinkInfoSize and the four mandatory offsets are stored and never
\* used: an input that differs from another only in the values of those
\* fields decodes with the same outcome, takes the same number of bytes and
\* gives the same value to every other field of the record.
C21_OffsetsNeverUsed ==
    (Done /\ st.lnk.HasLinkInfo /\ ReadsOf("linkInfoSize") # {}) =>
        LET li == ReadAt("linkInfoSize")
            b == st.input
        IN  \A w \in OtherWords :
              /\ \A o \in UnusedFieldPlaces :
                   li + o + 4 <= Len(b) =>
                       SameButUnused(st, Open(SetField32(b, li + o, w), st.rd))
              /\ li + 28 <= Len(b) =>
                   SameButUnused(st, Open(SetAll(b, li, UnusedFieldPlaces, w), st.rd))

\* a LinkInfo decoded to its strings, whose LocalBasePathOffset does not
\* point at the path that was stored
C21_Witness ==
    /\ Done /\ st.input = orig /\ st.err = "nil"
    /\ st.lnk.HasLinkInfo /\ st.lnk.VolumeIDAndLocalBasePath
    /\ st.lnk.LinkInfoSize = U32(0, 60) /\ st.lnk.LocalBasePathOffset = U32(0, 45)
    /\ st.lnk.CommonPathSuffixOffset = U32(0, 48)
    /\ st.lnk.VolumeLabel = Label(MaxLabel) /\ st.lnk.LocalBasePath = PathC
    /\ ReadAt("volumeLabel") - ReadAt("linkInfoSize") < 45

\* the reads made on the raw reader by Open itself, and those made on it by
\* the bufio.Reader to fill its buffer
DirectReads == { i \in 1..Len(st.reads) : st.reads[i].via = "file" }

BufferedReads == { i \in 1..Len(st.reads) : st.reads[i].via = "bufio" }

\* C22: Open reads the stream through the raw reader and through the
\* bufio.Reader wrapping it, and every direct read comes before the first
\* buffered one: the reads take the stream in order, each byte once; the
\* bufio buffer holds the bytes just before the cursor, and while it holds
\* any, no statement that reads directly is still to run.
C22_DirectReadsBeforeBuffered ==
    /\ \A i \in DirectReads : \A j \in BufferedReads : i < j
    /\ \A i \in 1..Len(st.reads) :
         st.reads[i].at = (IF i = 1 THEN 0 ELSE st.reads[i - 1].at + st.reads[i - 1].got)
    /\ Len(st.reads) > 0 =>
         st.pos = st.reads[Len(st.reads)].at + st.reads[Len(st.reads)].got
    /\ Len(st.buf) <= st.pos
    /\ st.buf = SubSeq(st.input, st.pos - Len(st.buf) + 1, st.pos)
    /\ BufferedReads # {} => st.pc \in {"volumeLabel", "localBasePath", "done"}
    /\ st.buf # <<>> => st.pc \in {"localBasePath", "done"}
    /\ \A i \in BufferedReads : st.reads[i].step \in {"volumeLabel", "localBasePath"}

\* both strings decoded after the direct reads, with a byte the bufio reader
\* took beyond them still in its buffer
C22_Witness ==
    /\ Done /\ st.err = "nil"
    /\ DirectReads # {} /\ BufferedReads # {}
    /\ st.lnk.VolumeLabel = Label(MaxLabel) /\ st.lnk.LocalBasePath = PathC
    /\ st.buf = <<\h55>>

\* the total length of the structures Open decodes from the input: the 76
\* header bytes, 2 + N for a Target ID List, the LinkInfo fields, and both
\* strings with their NULs when bit 0 of the sub-flags is set
DecodedLength ==
    LET idl == IF InHasTargetIDList THEN 2 + InIDListSize(st.input) ELSE 0
    IN  IF ~InHasLinkInfo THEN 76 + idl
        ELSE IF ~MaskSet(InLinkInfoFlags, U32(0, 1)) THEN OffsetsEnd
        ELSE LET wide == Gt32(InField32(OffsetsEnd + 12), 16)
                 s0 == OffsetsEnd + 16 + (IF wide THEN 4 ELSE 0)
             IN  FirstNulAfter(st.input, FirstNulAfter(st.input, s0))

\* C23: when Open succeeds, every direct read having got what it asked for,
\* the number of bytes it has taken from the underlying reader is the total
\* length of the structures it decoded: no byte past the terminating NUL of
\* LocalBasePath is consumed, and the caller's cursor stands at the first
\* undecoded byte.
C23_TakesOnlyWhatItDecodes ==
    (Done /\ st.err = "nil" /\ \A i \in DirectReads : st.reads[i].got = st.reads[i].want)
        => st.pos = DecodedLength

\* the statements that read the LinkInfo header: its two sizes, its
\* sub-flags and its offset fields
LinkInfoHeaderSteps ==
    { "linkInfoSize", "linkInfoHeaderSize", "linkInfoFlags", "volumeIDOffset",
      "localBasePathOffset", "commonNetworkRelativeLinkOffset",
      "commonPathSuffixOffset", "localBasePathOffsetUnicode",
      "commonPathSuffixOffsetUnicode" }

\* the number of bytes taken for the LinkInfo header so far
LinkInfoHeaderConsumed ==
    LET is == { i \in ReadsOfAny(LinkInfoHeaderSteps) : st.reads[i].got > 0 }
        last == CHOOSE i \in is : \A j \in is : j <= i
    IN  IF is = {} THEN 0
        ELSE st.reads[last].at + st.reads[last].got - ReadAt("linkInfoSize")

\* C24: whatever LinkInfoHeaderSize declares, the bytes Open takes for the
\* LinkInfo header (LinkInfoSize, LinkInfoHeaderSize, the sub-flags and every
\* offset field it reads) are never more than the declared size.
C24_HeaderWithinDeclaredSize ==
    WasRead("linkInfoHeaderSize") =>
        \/ LinkInfoHeaderConsumed = 0
        \/ Gt32(InLinkInfoHeaderSize, LinkInfoHeaderConsumed - 1)

====
